---- MODULE Spec2Model ----
(***************************************************************************)
(* Model of the kanban server (src/server.js): the in-memory task          *)
(* collection, the request handlers with their single yield point          *)
(* (await saveTasks()), the two-step save (mkdir, then writeFile of the     *)
(* collection as it is at that moment) and the WebSocket broadcast.        *)
(***************************************************************************)
EXTENDS Integers, Sequences, FiniteSets, TLC

(***************************************************************************)
(* Bounds of the model.                                                    *)
(***************************************************************************)
MaxReqs == 2
IdReqs == 3
TimeReqs == 2
HubReqs == 2
NetReqs == 2
MoveReqs == 3
ValidReqs == 2
FieldReqs == 2
ListReqs == 2
StatsReqs == 2
StatsClock == 3
RaceReqs == 3
ClientReqs == 2
ClientFetches == 2
FrameReqs == 3
ReadReqs == 3
StartReqs == 2
MaxAttempts == 6
ReconnectReqs == 2
Retries == 2
ConcReqs == 3
MaxInflight == 2
MaxSubs == 2
MaxClock == 1
MaxTarget == 2

\* The 24 hours of the stats route, in instants of the clock (12 hours each).
Day == 2

(***************************************************************************)
(* JSON / JavaScript values.  A value is a record [t, s, n, a]: t is the   *)
(* type tag, s the symbols of a string, n a number, a the elements of an   *)
(* array.  A string is a sequence of symbols; a whitespace character is    *)
(* the symbol " ", and every enumeration literal is one symbol.  The tags  *)
(* "uuid" and "iso" are strings too (typeof gives 'string'): the n-th      *)
(* value uuidv4() returned, and the toISOString() text of the instant n.   *)
(***************************************************************************)
Undef == [t |-> "undefined", s |-> <<>>, n |-> 0, a |-> <<>>]
Null == [t |-> "null", s |-> <<>>, n |-> 0, a |-> <<>>]
Str(s) == [t |-> "str", s |-> s, n |-> 0, a |-> <<>>]
Num(n) == [t |-> "num", s |-> <<>>, n |-> n, a |-> <<>>]
Arr(a) == [t |-> "arr", s |-> <<>>, n |-> 0, a |-> a]
Uuid(n) == [t |-> "uuid", s |-> <<>>, n |-> n, a |-> <<>>]
Iso(n) == [t |-> "iso", s |-> <<>>, n |-> n, a |-> <<>>]

IsString(v) == v.t \in {"str", "uuid", "iso"}

\* JavaScript truthiness: undefined, null, 0 and '' are falsy.
Truthy(v) ==
  CASE v.t = "undefined" -> FALSE
    [] v.t = "null" -> FALSE
    [] v.t = "num" -> v.n # 0
    [] v.t = "str" -> v.s # <<>>
    [] OTHER -> TRUE

\* a || b
OrElse(v, d) == IF Truthy(v) THEN v ELSE d

\* String.prototype.trim on the symbols of a string.
RECURSIVE TrimLeft(_)
TrimLeft(s) == IF s # <<>> /\ Head(s) = " " THEN TrimLeft(Tail(s)) ELSE s

RECURSIVE TrimRight(_)
TrimRight(s) ==
  IF s # <<>> /\ s[Len(s)] = " " THEN TrimRight(SubSeq(s, 1, Len(s) - 1)) ELSE s

TrimNothing(v) == v

Trim(v) == IF v.t = "str" THEN Str(TrimRight(TrimLeft(v.s))) ELSE v

\* v.trim exists only on strings; v.every only on arrays.
HasTrim(v) == IsString(v)
HasEvery(v) == v.t = "arr"

VALID_STATUSES == <<"backlog", "todo", "in_progress", "review", "done">>
VALID_PRIORITIES == <<"low", "medium", "high", "critical">>

\* Array.prototype.includes over an array of string literals.
Includes(lits, v) ==
  /\ v.t = "str"
  /\ Len(v.s) = 1
  /\ \E i \in DOMAIN lits : lits[i] = v.s[1]

\* Number(v) as the subtraction a.order - b.order coerces its operands: a
\* number is itself, null, '' and [] are 0, and any other string of the
\* model, undefined and the other arrays are NaN.
ToNumber(v) ==
  CASE v.t = "num" -> [nan |-> FALSE, n |-> v.n]
    [] v.t = "null" -> [nan |-> FALSE, n |-> 0]
    [] v.t = "str" /\ v.s = <<>> -> [nan |-> FALSE, n |-> 0]
    [] v.t = "arr" /\ v.a = <<>> -> [nan |-> FALSE, n |-> 0]
    [] OTHER -> [nan |-> TRUE, n |-> 0]

\* a - b
Minus(a, b) ==
  IF ToNumber(a).nan \/ ToNumber(b).nan
  THEN [nan |-> TRUE, n |-> 0]
  ELSE [nan |-> FALSE, n |-> ToNumber(a).n - ToNumber(b).n]

\* String.prototype.toLowerCase on one symbol; the letters the inputs use.
LowerSym(c) ==
  CASE c = "A" -> "a"
    [] c = "B" -> "b"
    [] c = "C" -> "c"
    [] c = "X" -> "x"
    [] OTHER -> c

\* v.toLowerCase exists only on strings.
HasToLowerCase(v) == IsString(v)

toLowerCase(v) == [v EXCEPT !.s = [i \in DOMAIN v.s |-> LowerSym(v.s[i])]]

\* String.prototype.includes: part occurs in whole as a substring.
StrIncludes(whole, part) ==
  \E i \in 1..(Len(whole.s) - Len(part.s) + 1) :
    SubSeq(whole.s, i, i + Len(part.s) - 1) = part.s

(***************************************************************************)
(* Request bodies.  A body is a JSON value that is an object or null; an   *)
(* object gives each key the model follows a value, Undef when the key is  *)
(* absent.                                                                 *)
(***************************************************************************)
Keys ==
  {"title", "description", "status", "priority", "tags", "assignee", "order",
   "id", "created_at", "updated_at"}

EmptyBody ==
  [json |-> "object", title |-> Undef, description |-> Undef, status |-> Undef,
   priority |-> Undef, tags |-> Undef, assignee |-> Undef, order |-> Undef,
   id |-> Undef, created_at |-> Undef, updated_at |-> Undef]

NullBody == [EmptyBody EXCEPT !.json = "null"]

(***************************************************************************)
(* validateTaskInput(data, isUpdate).  The result is the list of messages, *)
(* or threw = TRUE when the function raises a TypeError: reading a         *)
(* property of null, calling .trim on a title that is not a string, or     *)
(* calling .every on tags that are not an array.                           *)
(***************************************************************************)
ValidateThrows(data) ==
  \/ data.json = "null"
  \/ data.title.t # "undefined" /\ ~HasTrim(data.title)
  \/ data.tags.t # "undefined" /\ ~HasEvery(data.tags)

ErrIf(cond, msg) == IF cond THEN <<msg>> ELSE <<>>

StatusRuleOff(data) == FALSE

StatusRule(data) == data.status.t # "undefined" /\ ~Includes(VALID_STATUSES, data.status)

PriorityRuleOff(data) == FALSE

PriorityRule(data) ==
  data.priority.t # "undefined" /\ ~Includes(VALID_PRIORITIES, data.priority)

ValidateErrors(data, isUpdate) ==
  ErrIf(~isUpdate /\ ~Truthy(data.title), "Title is required")
  \o ErrIf(data.title.t # "undefined" /\ ~IsString(data.title), "Title must be a string")
  \o ErrIf(data.title.t # "undefined" /\ Trim(data.title).s = <<>> /\ data.title.t = "str",
           "Title cannot be empty")
  \o ErrIf(StatusRule(data), "Status must be one of")
  \o ErrIf(PriorityRule(data), "Priority must be one of")
  \o ErrIf(data.tags.t # "undefined" /\ data.tags.t # "arr", "Tags must be an array")
  \o ErrIf(data.tags.t = "arr" /\ \E i \in DOMAIN data.tags.a : ~IsString(data.tags.a[i]),
           "All tags must be strings")

validateTaskInput(data, isUpdate) ==
  IF ValidateThrows(data)
  THEN [threw |-> TRUE, errors |-> <<>>]
  ELSE [threw |-> FALSE, errors |-> ValidateErrors(data, isUpdate)]

(***************************************************************************)
(* Tasks.                                                                  *)
(***************************************************************************)
Statuses == {VALID_STATUSES[i] : i \in DOMAIN VALID_STATUSES}
Priorities == {VALID_PRIORITIES[i] : i \in DOMAIN VALID_PRIORITIES}

\* The task literal of POST /api/tasks and of the loop of POST /api/tasks/bulk.
newTask(data, id, now) ==
  [id |-> id,
   title |-> Trim(data.title),
   description |-> OrElse(data.description, Str(<<>>)),
   status |-> OrElse(data.status, Str(<<"backlog">>)),
   priority |-> OrElse(data.priority, Str(<<"medium">>)),
   tags |-> OrElse(data.tags, Arr(<<>>)),
   assignee |-> OrElse(data.assignee, Str(<<>>)),
   created_at |-> now,
   updated_at |-> now,
   order |-> IF data.order.t # "undefined" THEN data.order ELSE Num(0)]

\* { ...task, ...body }: a key present in the body replaces the task's value.
Over(old, new) == IF new.t # "undefined" THEN new ELSE old

Spread(task, body) ==
  [id |-> Over(task.id, body.id),
   title |-> Over(task.title, body.title),
   description |-> Over(task.description, body.description),
   status |-> Over(task.status, body.status),
   priority |-> Over(task.priority, body.priority),
   tags |-> Over(task.tags, body.tags),
   assignee |-> Over(task.assignee, body.assignee),
   created_at |-> Over(task.created_at, body.created_at),
   updated_at |-> Over(task.updated_at, body.updated_at),
   order |-> Over(task.order, body.order)]

\* The merge without the line that restores id.
updatedTaskIdFromBody(task, body, now) ==
  [Spread(task, body) EXCEPT
     !.created_at = task.created_at,
     !.updated_at = now,
     !.title = IF body.title.t # "undefined" THEN Trim(body.title) ELSE @]

\* The merge without the line that restores created_at.
updatedTaskCreatedFromBody(task, body, now) ==
  [Spread(task, body) EXCEPT
     !.id = task.id,
     !.updated_at = now,
     !.title = IF body.title.t # "undefined" THEN Trim(body.title) ELSE @]

\* The updatedTask literal of PATCH /api/tasks/:id, with the trimmed title.
updatedTask(task, body, now) ==
  [Spread(task, body) EXCEPT
     !.id = task.id,
     !.created_at = task.created_at,
     !.updated_at = now,
     !.title = IF body.title.t # "undefined" THEN Trim(body.title) ELSE @]

\* The move literal with order: req.body.order || tasks[taskIndex].order.
movedTaskOrderTruthy(task, body, now) ==
  [task EXCEPT
     !.status = body.status,
     !.order = OrElse(body.order, task.order),
     !.updated_at = now]

\* The move literal without its updated_at line.
movedTaskKeepsStamp(task, body, now) ==
  [task EXCEPT
     !.status = body.status,
     !.order = IF body.order.t # "undefined" THEN body.order ELSE task.order]

\* The move literal spreading the whole body over the task.
movedTaskSpreadsBody(task, body, now) ==
  [Spread(task, body) EXCEPT !.updated_at = now]

\* The updatedTask literal of POST /api/tasks/:id/move.
movedTask(task, body, now) ==
  [task EXCEPT
     !.status = body.status,
     !.order = IF body.order.t # "undefined" THEN body.order ELSE task.order,
     !.updated_at = now]

\* tasks.findIndex(t => t.id === id), 1-based; 0 stands for -1.
findIndex(ts, id) ==
  IF \E i \in DOMAIN ts : ts[i].id = id
  THEN CHOOSE i \in DOMAIN ts : ts[i].id = id /\ \A j \in 1..(i - 1) : ts[j].id # id
  ELSE 0

\* tasks.splice(i, 1)
Splice(ts, i) == SubSeq(ts, 1, i - 1) \o SubSeq(ts, i + 1, Len(ts))

\* tasks.filter(pred), for the two predicates of DELETE /api/tasks.
RECURSIVE FilterDone(_, _)
FilterDone(ts, keepDone) ==
  IF ts = <<>> THEN <<>>
  ELSE IF (Head(ts).status = Str(<<"done">>)) = keepDone
       THEN <<Head(ts)>> \o FilterDone(Tail(ts), keepDone)
       ELSE FilterDone(Tail(ts), keepDone)

(***************************************************************************)
(* The handlers, up to their await saveTasks().  Each gives the outcome of *)
(* the synchronous part: the collection it leaves, whether it goes on to   *)
(* saveTasks() (save), and what the continuation will broadcast (pending)  *)
(* and answer (status, ret, errs, count).  Without save the answer is sent *)
(* at once.  why names the path: ok, validation, notfound, exception (the  *)
(* catch block after a TypeError).  used counts the uuidv4() calls.        *)
(***************************************************************************)
Event(type, task, timestamp) == [type |-> type, task |-> task, timestamp |-> timestamp]

\* The body of GET /api/stats before any task is counted.
NoStats ==
  [total |-> 0,
   byStatus |-> [s \in {"backlog", "todo", "in_progress", "review", "done"} |-> 0],
   byPriority |-> [p \in {"low", "medium", "high", "critical"} |-> 0],
   recentlyCompleted |-> 0]

Fail(ts, status, why, msgs) ==
  [status |-> status, why |-> why, tasks |-> ts, save |-> FALSE, pending |-> <<>>,
   ret |-> <<>>, errs |-> IF msgs = <<>> THEN <<>> ELSE <<[index |-> -1, msgs |-> msgs]>>,
   count |-> 0, used |-> 0, stats |-> NoStats]

Ok(ts, status, pending, ret) ==
  [status |-> status, why |-> "ok", tasks |-> ts, save |-> TRUE, pending |-> pending,
   ret |-> ret, errs |-> <<>>, count |-> 0, used |-> 0, stats |-> NoStats]

\* app.get('/api/tasks/:id')
getTask(ts, id) ==
  LET i == findIndex(ts, id) IN
  IF i = 0 THEN Fail(ts, 404, "notfound", <<>>)
  ELSE [Ok(ts, 200, <<>>, <<ts[i]>>) EXCEPT !.save = FALSE]

\* app.post('/api/tasks')
postTask(ts, body, nid, now) ==
  LET v == validateTaskInput(body, FALSE) IN
  IF v.threw THEN Fail(ts, 500, "exception", <<>>)
  ELSE IF Len(v.errors) > 0 THEN Fail(ts, 400, "validation", v.errors)
  ELSE LET t == newTask(body, Uuid(nid), now) IN
       [Ok(Append(ts, t), 201, <<Event("task_created", t, now)>>, <<t>>) EXCEPT !.used = 1]

\* app.patch('/api/tasks/:id')
patchTask(ts, id, body, now) ==
  LET i == findIndex(ts, id)
      v == validateTaskInput(body, TRUE)
  IN
  IF i = 0 THEN Fail(ts, 404, "notfound", <<>>)
  ELSE IF v.threw THEN Fail(ts, 500, "exception", <<>>)
  ELSE IF Len(v.errors) > 0 THEN Fail(ts, 400, "validation", v.errors)
  ELSE LET t == updatedTask(ts[i], body, now) IN
       Ok([ts EXCEPT ![i] = t], 200, <<Event("task_updated", t, t.updated_at)>>, <<t>>)

\* The delete route splicing at the start of the array instead of at the index found.
deleteTaskAtStart(ts, id) ==
  LET i == findIndex(ts, id) IN
  IF i = 0 THEN Fail(ts, 404, "notfound", <<>>)
  ELSE Ok(Splice(ts, 1), 204, <<Event("task_deleted", ts[1], Undef)>>, <<>>)

\* app.delete('/api/tasks/:id'); the event's timestamp is taken when it is broadcast.
deleteTask(ts, id) ==
  LET i == findIndex(ts, id) IN
  IF i = 0 THEN Fail(ts, 404, "notfound", <<>>)
  ELSE Ok(Splice(ts, i), 204, <<Event("task_deleted", ts[i], Undef)>>, <<>>)

\* Move that assigns before it checks the status.
moveTaskAssignFirst(ts, id, body, now) ==
  LET i == findIndex(ts, id) IN
  IF i = 0 THEN Fail(ts, 404, "notfound", <<>>)
  ELSE IF ~Truthy(body.status)
       THEN Fail(ts, 400, "validation", <<"Status is required">>)
  ELSE IF ~Includes(VALID_STATUSES, body.status)
       THEN Fail([ts EXCEPT ![i] = movedTask(ts[i], body, now)], 400, "validation",
                 <<"Status must be one of">>)
  ELSE LET t == movedTask(ts[i], body, now) IN
       Ok([ts EXCEPT ![i] = t], 200, <<Event("task_moved", t, t.updated_at)>>, <<t>>)

\* app.post('/api/tasks/:id/move')
moveTask(ts, id, body, now) ==
  LET i == findIndex(ts, id) IN
  IF i = 0 THEN Fail(ts, 404, "notfound", <<>>)
  ELSE IF ~Truthy(body.status)
       THEN Fail(ts, 400, "validation", <<"Status is required">>)
  ELSE IF ~Includes(VALID_STATUSES, body.status)
       THEN Fail(ts, 400, "validation", <<"Status must be one of">>)
  ELSE LET t == movedTask(ts[i], body, now) IN
       Ok([ts EXCEPT ![i] = t], 200, <<Event("task_moved", t, t.updated_at)>>, <<t>>)

\* The loop of POST /api/tasks/bulk over elements i..Len(list), from the
\* accumulated state acc = [tasks, created, errs, threw].
RECURSIVE BulkLoop(_, _, _, _, _)
BulkLoop(acc, list, i, nid, now) ==
  IF i > Len(list) \/ acc.threw THEN acc
  ELSE LET v == validateTaskInput(list[i], FALSE)
           t == newTask(list[i], Uuid(nid + Len(acc.created)), now)
       IN
       IF v.threw THEN [acc EXCEPT !.threw = TRUE]
       ELSE IF Len(v.errors) > 0
            THEN BulkLoop([acc EXCEPT !.errs = Append(@, [index |-> i - 1, msgs |-> v.errors])],
                          list, i + 1, nid, now)
       ELSE BulkLoop([acc EXCEPT !.tasks = Append(@, t), !.created = Append(@, t)],
                     list, i + 1, nid, now)

\* The forEach over createdTasks walking the list from its end.
RECURSIVE CreatedEventsReversed(_)
CreatedEventsReversed(created) ==
  IF created = <<>> THEN <<>>
  ELSE CreatedEventsReversed(Tail(created))
       \o <<Event("task_created", Head(created), Head(created).created_at)>>

RECURSIVE CreatedEvents(_)
CreatedEvents(created) ==
  IF created = <<>> THEN <<>>
  ELSE <<Event("task_created", Head(created), Head(created).created_at)>>
       \o CreatedEvents(Tail(created))

\* The bulk route without the test for a list in which every element failed.
bulkTasksNoFailTest(ts, arg, nid, now) ==
  IF ~arg.isArray THEN Fail(ts, 400, "validation", <<"Body must contain a tasks array">>)
  ELSE LET acc == BulkLoop([tasks |-> ts, created |-> <<>>, errs |-> <<>>, threw |-> FALSE],
                           arg.elems, 1, nid, now)
       IN
       IF acc.threw
       THEN [Fail(acc.tasks, 500, "exception", <<>>) EXCEPT !.used = Len(acc.created)]
       ELSE [Ok(acc.tasks, 201, CreatedEvents(acc.created), acc.created) EXCEPT
               !.errs = acc.errs, !.used = Len(acc.created)]

\* app.post('/api/tasks/bulk'); arg = [isArray, elems] is req.body.tasks.
bulkTasks(ts, arg, nid, now) ==
  IF ~arg.isArray THEN Fail(ts, 400, "validation", <<"Body must contain a tasks array">>)
  ELSE LET acc == BulkLoop([tasks |-> ts, created |-> <<>>, errs |-> <<>>, threw |-> FALSE],
                           arg.elems, 1, nid, now)
       IN
       IF acc.threw
       THEN [Fail(acc.tasks, 500, "exception", <<>>) EXCEPT !.used = Len(acc.created)]
       ELSE IF Len(acc.errs) > 0 /\ Len(acc.created) = 0
            THEN [Fail(ts, 400, "validation", <<>>) EXCEPT !.errs = acc.errs]
       ELSE [Ok(acc.tasks, 201, CreatedEvents(acc.created), acc.created) EXCEPT
               !.errs = acc.errs, !.used = Len(acc.created)]

RECURSIVE DeletedEvents(_)
DeletedEvents(deleted) ==
  IF deleted = <<>> THEN <<>>
  ELSE <<Event("task_deleted", Head(deleted), Undef)>> \o DeletedEvents(Tail(deleted))

\* The clear route counting the tasks present instead of the tasks removed.
clearDoneCountsAll(ts, q) ==
  IF q # Str(<<"done">>)
  THEN Fail(ts, 400, "validation", <<"Only status=done is supported for bulk delete">>)
  ELSE LET deletedTasks == FilterDone(ts, TRUE)
           kept == FilterDone(ts, FALSE)
       IN [Ok(kept, 200, DeletedEvents(deletedTasks), <<>>) EXCEPT !.count = Len(ts)]

\* app.delete('/api/tasks'); q is req.query.status.
clearDone(ts, q) ==
  IF q # Str(<<"done">>)
  THEN Fail(ts, 400, "validation", <<"Only status=done is supported for bulk delete">>)
  ELSE LET deletedTasks == FilterDone(ts, TRUE)
           kept == FilterDone(ts, FALSE)
       IN [Ok(kept, 200, DeletedEvents(deletedTasks), <<>>) EXCEPT
             !.count = Len(ts) - Len(kept)]

\* statusOrder[status] of the list route; undefined, which subtracts as NaN,
\* for any other value.
statusOrder(v) ==
  IF Includes(VALID_STATUSES, v)
  THEN [nan |-> FALSE, n |-> (CHOOSE i \in DOMAIN VALID_STATUSES : VALID_STATUSES[i] = v.s[1]) - 1]
  ELSE [nan |-> TRUE, n |-> 0]

\* The comparator of filtered.sort, as sort reads it: a NaN result counts as 0.
Compare(a, b) ==
  LET ra == statusOrder(a.status)
      rb == statusOrder(b.status)
      d == Minus(a.order, b.order)
  IN IF ra.nan \/ rb.nan THEN 0
     ELSE IF ra.n - rb.n # 0 THEN ra.n - rb.n
     ELSE IF d.nan THEN 0 ELSE d.n

\* Array.prototype.sort is stable: each element goes after the elements that
\* do not compare greater than it.
RECURSIVE InsertTask(_, _)
InsertTask(sorted, x) ==
  IF sorted = <<>> THEN <<x>>
  ELSE IF Compare(sorted[Len(sorted)], x) > 0
       THEN Append(InsertTask(SubSeq(sorted, 1, Len(sorted) - 1), x), sorted[Len(sorted)])
       ELSE Append(sorted, x)

RECURSIVE Sort(_)
Sort(ts) == IF ts = <<>> THEN <<>> ELSE InsertTask(Sort(SubSeq(ts, 1, Len(ts) - 1)), ts[Len(ts)])

\* The predicate of the search filter on one task; raises when it calls
\* toLowerCase on a value that has none.
SearchRaises(task, search) ==
  \/ ~HasToLowerCase(task.title)
  \/ /\ ~StrIncludes(toLowerCase(task.title), toLowerCase(search))
     /\ ~HasToLowerCase(task.description)

SearchMatchesCase(task, search) ==
  \/ StrIncludes(task.title, search)
  \/ StrIncludes(task.description, search)

SearchMatches(task, search) ==
  \/ StrIncludes(toLowerCase(task.title), toLowerCase(search))
  \/ StrIncludes(toLowerCase(task.description), toLowerCase(search))

\* The list route sorting the collection itself instead of a copy of it.
listTasksInPlace(ts, query) ==
  [Ok(Sort(ts), 200, <<>>, Sort(ts)) EXCEPT !.save = FALSE]

\* app.get('/api/tasks'); query is req.query.
listTasks(ts, query) ==
  LET byStatus == IF Truthy(query.status)
                  THEN SelectSeq(ts, LAMBDA t : t.status = query.status) ELSE ts
      byPriority == IF Truthy(query.priority)
                    THEN SelectSeq(byStatus, LAMBDA t : t.priority = query.priority)
                    ELSE byStatus
      byAssignee == IF Truthy(query.assignee)
                    THEN SelectSeq(byPriority, LAMBDA t : t.assignee = query.assignee)
                    ELSE byPriority
  IN IF ~Truthy(query.search)
     THEN [Ok(ts, 200, <<>>, Sort(byAssignee)) EXCEPT !.save = FALSE]
     ELSE IF \/ ~HasToLowerCase(query.search)
             \/ \E i \in DOMAIN byAssignee : SearchRaises(byAssignee[i], query.search)
          THEN Fail(ts, 500, "exception", <<>>)
     ELSE [Ok(ts, 200, <<>>,
              Sort(SelectSeq(byAssignee, LAMBDA t : SearchMatches(t, query.search))))
             EXCEPT !.save = FALSE]

IncrementNothing(buckets, key) == buckets

\* buckets[key]++ ; a key that names no bucket makes a property of its own
\* and leaves the buckets alone.
Increment(buckets, key) ==
  IF key.t = "str" /\ Len(key.s) = 1 /\ key.s[1] \in DOMAIN buckets
  THEN [buckets EXCEPT ![key.s[1]] = @ + 1]
  ELSE buckets

\* The body of tasks.forEach in the stats route, for the tasks of ts in turn;
\* oneDayAgo is the instant a day before now.
RECURSIVE forEachTask(_, _)
forEachTask(ts, oneDayAgo) ==
  IF ts = <<>> THEN NoStats
  ELSE LET acc == forEachTask(SubSeq(ts, 1, Len(ts) - 1), oneDayAgo)
           task == ts[Len(ts)]
       IN [acc EXCEPT
             !.byStatus = Increment(@, task.status),
             !.byPriority = Increment(@, task.priority),
             !.recentlyCompleted =
               IF task.status = Str(<<"done">>) /\ task.updated_at.n >= oneDayAgo
               THEN @ + 1 ELSE @]

\* app.get('/api/stats'); now is Date.now() and a day is Day instants.
getStats(ts, now) ==
  [Ok(ts, 200, <<>>, <<>>) EXCEPT
     !.save = FALSE,
     !.stats = [forEachTask(ts, now - Day) EXCEPT !.total = Len(ts)]]

(***************************************************************************)
(* State.                                                                  *)
(*   tasks       the in-memory collection (let tasks)                      *)
(*   nextId      the number of the next value uuidv4() returns             *)
(*   clock       the instant new Date() reads                              *)
(*   reqs        the handlers suspended in await saveTasks()               *)
(*   nreq        the number of requests that changed tasks or called       *)
(*               saveTasks()                                               *)
(*   resp        the answer sent by the last step, NoResp when it sent     *)
(*               none                                                      *)
(*   disk        the content of TASKS_FILE                                 *)
(*   readyState  of each subscriber's socket: 0 before it connects, then   *)
(*               1 OPEN, 2 CLOSING, 3 CLOSED                               *)
(*   inbox       what was sent on each subscriber's socket, in order       *)
(*   nemit       the number of messages handed to broadcastToClients       *)
(*   delivered   the number of messages of inbox that reached each         *)
(*               subscriber's peer                                         *)
(*   broken      the subscribers whose connection failed while the         *)
(*               server's socket is still OPEN                             *)
(*   completedAt history: the instant each done task reached done          *)
(*   local       state.tasks of the browser client                         *)
(*   fetch       the list requests of the browser client: how many it      *)
(*               sent and the responses on their way                       *)
(*   server      where start() is: "loading", "saving" (the save of a      *)
(*               missing file), "listening" or "exited"                    *)
(*   page        the connection state of the browser client, see NoPage    *)
(***************************************************************************)
VARIABLES tasks, nextId, clock, reqs, nreq, resp, disk, readyState, inbox, nemit,
          delivered, broken, completedAt, local, fetch, server, page

vars ==
  <<tasks, nextId, clock, reqs, nreq, resp, disk, readyState, inbox, nemit, delivered,
    broken, completedAt, local, fetch, server, page>>

\* The connections: how much of what was sent reached each peer, and which failed.
net == <<delivered, broken>>

\* The browser client's side: its list and its requests for the list.
browser == <<local, fetch>>

Subs == 1..MaxSubs

CONNECTING == 0
OPEN == 1
CLOSING == 2
CLOSED == 3

\* req.query of GET /api/tasks with no parameter.
NoQuery == [status |-> Undef, priority |-> Undef, assignee |-> Undef, search |-> Undef]

\* A request: its route (kind), req.params.id, req.body, req.body.tasks of the
\* bulk route as [isArray, elems], req.query.status of the clear route, and
\* req.query of the list route.
NoReq ==
  [kind |-> "none", id |-> Undef, body |-> EmptyBody,
   arg |-> [isArray |-> FALSE, elems |-> <<>>], q |-> Undef, query |-> NoQuery]

NoResp ==
  [kind |-> "none", id |-> Undef, body |-> EmptyBody,
   arg |-> [isArray |-> FALSE, elems |-> <<>>], q |-> Undef, query |-> NoQuery,
   stats |-> NoStats, status |-> 0, why |-> "none", ret |-> <<>>, errs |-> <<>>, count |-> 0]

\* wss.clients: the sockets the server holds, OPEN or CLOSING.
wssClients == {c \in Subs : readyState[c] \in {OPEN, CLOSING}}

\* The browser client before init() runs: state as app.js declares it, no
\* socket and no timer.  ws is the socket of state.ws as the page sees it,
\* sub the server's socket at its other end (0 when it has none), timers the
\* reconnect timers that are set, delay the delay of the last one.
NoPage ==
  [loaded |-> FALSE, ws |-> "none", sub |-> 0, connected |-> FALSE,
   reconnectAttempts |-> 0, timers |-> 0, delay |-> 0]

\* After start() found no file: loadTasks set tasks = [] and saved it.
Init ==
  /\ tasks = <<>>
  /\ nextId = 1
  /\ clock = 0
  /\ reqs = {}
  /\ nreq = 0
  /\ resp = NoResp
  /\ disk = [state |-> "written", data |-> <<>>]
  /\ readyState = [c \in Subs |-> CONNECTING]
  /\ inbox = [c \in Subs |-> <<>>]
  /\ nemit = 0
  /\ delivered = [c \in Subs |-> 0]
  /\ broken = {}
  /\ completedAt = <<>>
  /\ local = <<>>
  /\ fetch = [sent |-> 0, inflight |-> {}]
  /\ server = "listening"
  /\ page = NoPage

(***************************************************************************)
(* Inputs.                                                                 *)
(***************************************************************************)
sA == Str(<<"A">>)
sB == Str(<<" ", "B", " ">>)
sBlank == Str(<<" ">>)
sDone == Str(<<"done">>)
sBogus == Str(<<"bogus">>)

CreateBodies ==
  {[EmptyBody EXCEPT !.title = sA],
   [EmptyBody EXCEPT !.title = sB, !.status = sDone, !.priority = Str(<<"high">>)],
   [EmptyBody EXCEPT !.title = sA, !.status = sBogus],
   [EmptyBody EXCEPT !.title = sA, !.priority = sBogus],
   [EmptyBody EXCEPT !.title = Num(5)],
   [EmptyBody EXCEPT !.title = sBlank],
   [EmptyBody EXCEPT !.title = sBlank, !.status = sBogus, !.priority = sBogus],
   [EmptyBody EXCEPT !.title = sA, !.tags = Str(<<"x">>)],
   EmptyBody}

UpdateBodies ==
  {[EmptyBody EXCEPT !.title = sB],
   [EmptyBody EXCEPT !.assignee = Str(<<"x">>)],
   [EmptyBody EXCEPT !.status = sBogus],
   [EmptyBody EXCEPT !.priority = sBogus],
   [EmptyBody EXCEPT !.title = Num(5)],
   [EmptyBody EXCEPT !.id = Uuid(2), !.created_at = Iso(MaxClock + 1)]}

MoveBodies ==
  {[EmptyBody EXCEPT !.status = sDone],
   [EmptyBody EXCEPT !.status = Str(<<"todo">>), !.order = Num(2)],
   [EmptyBody EXCEPT !.status = sBogus],
   [EmptyBody EXCEPT !.status = Str(<<"review">>), !.priority = sBogus, !.title = sBlank],
   EmptyBody}

BulkArgs ==
  {[isArray |-> FALSE, elems |-> <<>>],
   [isArray |-> TRUE, elems |-> <<>>],
   [isArray |-> TRUE, elems |-> <<[EmptyBody EXCEPT !.title = Str(<<>>)]>>],
   [isArray |-> TRUE, elems |-> <<[EmptyBody EXCEPT !.title = Num(5)]>>],
   [isArray |-> TRUE, elems |-> <<[EmptyBody EXCEPT !.title = sBlank],
                                  [EmptyBody EXCEPT !.title = sA, !.status = sBogus]>>],
   [isArray |-> TRUE, elems |-> <<[EmptyBody EXCEPT !.title = sA],
                                  [EmptyBody EXCEPT !.title = Str(<<>>)]>>],
   [isArray |-> TRUE, elems |-> <<[EmptyBody EXCEPT !.title = sA],
                                  [EmptyBody EXCEPT !.title = Num(5)]>>]}

TargetIds == {Uuid(k) : k \in 1..MaxTarget}

Queries == {sDone, Str(<<"todo">>), Undef}

(***************************************************************************)
(* A request arrives and its handler runs up to await saveTasks(), or to   *)
(* its answer when it does not get there.  in holds the inputs of the      *)
(* specification: the bodies, ids and queries requests draw from, max, the *)
(* number of requests that may change tasks or save, and inflight, the     *)
(* number of handlers that may wait for their save at once.                *)
(***************************************************************************)
\* History: the instant each task that is done now reached done.
Reached(old, ts, now) ==
  [id \in {ts[i].id : i \in {j \in DOMAIN ts : ts[j].status = Str(<<"done">>)}} |->
     IF id \in DOMAIN old THEN old[id] ELSE now]

Handle(in, rq, out) ==
  /\ server = "listening"
  /\ (out.save \/ out.tasks # tasks) => nreq < in.max
  /\ nreq' = IF out.save \/ out.tasks # tasks THEN nreq + 1 ELSE nreq
  /\ tasks' = out.tasks
  /\ nextId' = nextId + out.used
  /\ IF out.save
     THEN /\ Cardinality(reqs) < in.inflight
          /\ reqs' = reqs \cup
                       {[pc |-> "mkdir", n |-> nreq + 1, kind |-> rq.kind, id |-> rq.id,
                         body |-> rq.body, arg |-> rq.arg, q |-> rq.q, query |-> rq.query,
                         status |-> out.status, pending |-> out.pending,
                         ret |-> out.ret, errs |-> out.errs, count |-> out.count,
                         snapshot |-> <<>>]}
          /\ resp' = NoResp
     ELSE /\ reqs' = reqs
          /\ resp' = [kind |-> rq.kind, id |-> rq.id, body |-> rq.body, arg |-> rq.arg,
                      q |-> rq.q, query |-> rq.query, stats |-> out.stats,
                      status |-> out.status, why |-> out.why,
                      ret |-> out.ret, errs |-> out.errs, count |-> out.count]
  /\ completedAt' = Reached(completedAt, out.tasks, clock)
  /\ UNCHANGED <<clock, disk, readyState, inbox, nemit>>
  /\ UNCHANGED net
  /\ UNCHANGED browser
  /\ UNCHANGED <<server, page>>

Get(in) ==
  \E id \in in.ids : Handle(in, [NoReq EXCEPT !.kind = "get", !.id = id], getTask(tasks, id))

Create(in) ==
  \E body \in in.create :
    Handle(in, [NoReq EXCEPT !.kind = "create", !.body = body],
           postTask(tasks, body, nextId, Iso(clock)))

Update(in) ==
  \E id \in in.ids, body \in in.update :
    Handle(in, [NoReq EXCEPT !.kind = "update", !.id = id, !.body = body],
           patchTask(tasks, id, body, Iso(clock)))

Move(in) ==
  \E id \in in.ids, body \in in.move :
    Handle(in, [NoReq EXCEPT !.kind = "move", !.id = id, !.body = body],
           moveTask(tasks, id, body, Iso(clock)))

Delete(in) ==
  \E id \in in.ids :
    Handle(in, [NoReq EXCEPT !.kind = "delete", !.id = id], deleteTask(tasks, id))

BulkCreate(in) ==
  \E arg \in in.bulk :
    Handle(in, [NoReq EXCEPT !.kind = "bulk", !.arg = arg],
           bulkTasks(tasks, arg, nextId, Iso(clock)))

ClearDone(in) ==
  \E q \in in.queries :
    Handle(in, [NoReq EXCEPT !.kind = "clear", !.q = q], clearDone(tasks, q))

List(in) ==
  \E query \in in.lists :
    Handle(in, [NoReq EXCEPT !.kind = "list", !.query = query], listTasks(tasks, query))

Stats(in) == Handle(in, [NoReq EXCEPT !.kind = "stats"], getStats(tasks, clock))

(***************************************************************************)
(* saveTasks() and the rest of the handler.                                *)
(***************************************************************************)
\* broadcastToClients without the readyState test.
broadcastToAll(box, message) ==
  [c \in Subs |-> IF c \in wssClients THEN Append(box[c], message) ELSE box[c]]

\* broadcastToClients that sends an OPEN client nothing it was already sent
\* about the same task.
broadcastOncePerTask(box, message) ==
  [c \in Subs |->
     IF /\ c \in wssClients
        /\ readyState[c] = OPEN
        /\ \A i \in DOMAIN box[c] : box[c][i].task.id # message.task.id
     THEN Append(box[c], message)
     ELSE box[c]]

\* A send that raises on a failed connection ends the forEach: the clients
\* after it, in the order they connected, are not reached.
broadcastStopsAtFailed(box, message) ==
  [c \in Subs |->
     IF /\ readyState[c] = OPEN
        /\ \A d \in 1..c : ~(readyState[d] = OPEN /\ d \in broken)
     THEN Append(box[c], message)
     ELSE box[c]]

\* broadcastToClients(message): one send to every client that is OPEN.  send
\* queues the message on the socket and returns; the handler passes no
\* callback and does not wait for it.
broadcastToClients(box, message) ==
  [c \in Subs |->
     IF c \in wssClients /\ readyState[c] = OPEN THEN Append(box[c], message) ELSE box[c]]

\* A task_deleted message reads the clock when it is built.
Stamped(e, now) == IF e.timestamp.t = "undefined" THEN [e EXCEPT !.timestamp = now] ELSE e

RECURSIVE StampedAll(_, _)
StampedAll(evs, now) ==
  IF evs = <<>> THEN <<>> ELSE <<Stamped(Head(evs), now)>> \o StampedAll(Tail(evs), now)

\* The forEach loops around broadcastToClients, and the single calls.
RECURSIVE BroadcastAll(_, _)
BroadcastAll(box, evs) ==
  IF evs = <<>> THEN box ELSE BroadcastAll(broadcastToClients(box, Head(evs)), Tail(evs))

\* A continuation that writes its task back by id after the await.
tasksWrittenBack(ts, r, ok) ==
  IF ok /\ r.kind \in {"update", "move"}
  THEN LET i == findIndex(ts, r.ret[1].id) IN
       IF i = 0 THEN Append(ts, r.ret[1]) ELSE [ts EXCEPT ![i] = r.ret[1]]
  ELSE ts

\* A catch block that reloads the collection from the file.
tasksReloaded(ts, r, ok) == IF ok THEN ts ELSE disk.data

\* The collection after the handler's continuation: the code that follows
\* await saveTasks(), and the catch block, leave tasks alone.
tasksAfterAwait(ts, r, ok) == ts

Answer(r, ok) ==
  [kind |-> r.kind, id |-> r.id, body |-> r.body, arg |-> r.arg, q |-> r.q,
   query |-> r.query, stats |-> NoStats,
   status |-> IF ok THEN r.status ELSE 500,
   why |-> IF ok THEN "ok" ELSE "save",
   ret |-> IF ok THEN r.ret ELSE <<>>, errs |-> IF ok THEN r.errs ELSE <<>>,
   count |-> IF ok THEN r.count ELSE 0]

\* fs.mkdir resolved: JSON.stringify(tasks) is evaluated now, writeFile starts.
MkdirDone(r) ==
  /\ r.pc = "mkdir"
  /\ reqs' = (reqs \ {r}) \cup {[r EXCEPT !.pc = "write", !.snapshot = tasks]}
  /\ resp' = NoResp
  /\ UNCHANGED <<tasks, nextId, clock, nreq, disk, readyState, inbox, nemit>>
  /\ UNCHANGED net
  /\ UNCHANGED <<completedAt, browser>>
  /\ UNCHANGED <<server, page>>

\* fs.writeFile resolved: the handler broadcasts and answers.
WriteDone(r) ==
  /\ r.pc = "write"
  /\ disk' = [state |-> "written", data |-> r.snapshot]
  /\ inbox' = BroadcastAll(inbox, StampedAll(r.pending, Iso(clock)))
  /\ nemit' = nemit + Len(r.pending)
  /\ reqs' = reqs \ {r}
  /\ resp' = Answer(r, TRUE)
  /\ tasks' = tasksAfterAwait(tasks, r, TRUE)
  /\ UNCHANGED <<nextId, clock, nreq, readyState>>
  /\ UNCHANGED net
  /\ UNCHANGED <<completedAt, browser>>
  /\ UNCHANGED <<server, page>>

\* fs.mkdir or fs.writeFile rejected: saveTasks rethrows and the handler's
\* catch block answers 500.  The file is left as it was.
SaveFail(r) ==
  /\ r.pc \in {"mkdir", "write"}
  /\ reqs' = reqs \ {r}
  /\ resp' = Answer(r, FALSE)
  /\ tasks' = tasksAfterAwait(tasks, r, FALSE)
  /\ UNCHANGED <<nextId, clock, nreq, disk, readyState, inbox, nemit>>
  /\ UNCHANGED net
  /\ UNCHANGED <<completedAt, browser>>
  /\ UNCHANGED <<server, page>>

(***************************************************************************)
(* Subscribers and the clock.                                              *)
(***************************************************************************)
\* wss.on('connection'): a new socket is OPEN and in wss.clients; nothing is sent.
Connect(c) ==
  /\ readyState[c] = CONNECTING
  /\ \A d \in 1..(c - 1) : readyState[d] # CONNECTING
  /\ readyState' = [readyState EXCEPT ![c] = OPEN]
  /\ resp' = NoResp
  /\ UNCHANGED <<tasks, nextId, clock, reqs, nreq, disk, inbox, nemit>>
  /\ UNCHANGED net
  /\ UNCHANGED <<completedAt, browser>>
  /\ UNCHANGED <<server, page>>

\* The closing handshake starts: the socket is CLOSING, still in wss.clients.
BeginClose(c) ==
  /\ readyState[c] = OPEN
  /\ readyState' = [readyState EXCEPT ![c] = CLOSING]
  /\ resp' = NoResp
  /\ UNCHANGED <<tasks, nextId, clock, reqs, nreq, disk, inbox, nemit>>
  /\ UNCHANGED net
  /\ UNCHANGED <<completedAt, browser>>
  /\ UNCHANGED <<server, page>>

\* ws.on('close'): the socket is CLOSED and out of wss.clients.
Closed(c) ==
  /\ readyState[c] = CLOSING
  /\ readyState' = [readyState EXCEPT ![c] = CLOSED]
  /\ resp' = NoResp
  /\ UNCHANGED <<tasks, nextId, clock, reqs, nreq, disk, inbox, nemit>>
  /\ UNCHANGED net
  /\ UNCHANGED <<completedAt, browser>>
  /\ UNCHANGED <<server, page>>

\* The connection of an OPEN socket fails (the peer is gone or unreachable);
\* the server has not noticed yet.
Break(c) ==
  /\ readyState[c] = OPEN
  /\ c \notin broken
  /\ broken' = broken \cup {c}
  /\ resp' = NoResp
  /\ UNCHANGED <<tasks, nextId, clock, reqs, nreq, disk, readyState, inbox, nemit, delivered>>
  /\ UNCHANGED <<completedAt, browser>>
  /\ UNCHANGED <<server, page>>

\* A queued message reaches the peer, however late.
Deliver(c) ==
  /\ c \notin broken
  /\ delivered[c] < Len(inbox[c])
  /\ delivered' = [delivered EXCEPT ![c] = @ + 1]
  /\ resp' = NoResp
  /\ UNCHANGED <<tasks, nextId, clock, reqs, nreq, disk, readyState, inbox, nemit, broken>>
  /\ UNCHANGED <<completedAt, browser>>
  /\ UNCHANGED <<server, page>>

\* ws.on('error') then ws.on('close'): both only log; the socket is CLOSED.
Dropped(c) ==
  /\ c \in broken
  /\ readyState[c] = OPEN
  /\ readyState' = [readyState EXCEPT ![c] = CLOSED]
  /\ resp' = NoResp
  /\ UNCHANGED <<tasks, nextId, clock, reqs, nreq, disk, inbox, nemit, delivered, broken>>
  /\ UNCHANGED <<completedAt, browser>>
  /\ UNCHANGED <<server, page>>

\* The socket of the browser client among the subscribers.
Browser == 1

\* handleWebSocketMessage: state.tasks after the message.
handleWebSocketMessage(ts, message) ==
  CASE message.type = "task_created" ->
         IF findIndex(ts, message.task.id) = 0 THEN Append(ts, message.task) ELSE ts
    [] message.type \in {"task_updated", "task_moved"} ->
         IF findIndex(ts, message.task.id) # 0
         THEN [ts EXCEPT ![findIndex(ts, message.task.id)] = message.task]
         ELSE ts
    [] message.type = "task_deleted" ->
         SelectSeq(ts, LAMBDA t : t.id # message.task.id)
    [] OTHER -> ts

\* fetch after api.getTasks() sent GET /api/tasks with no filter and the
\* server answered it.
getTasksSent ==
  [sent |-> fetch.sent + 1,
   inflight |-> fetch.inflight \cup
     {[n |-> fetch.sent + 1,
       ok |-> listTasks(tasks, NoQuery).status = 200,
       ret |-> listTasks(tasks, NoQuery).ret]}]

\* fetchAndRender up to its await: api.getTasks() sends GET /api/tasks with
\* no filter and the server answers from the collection as it is now; the
\* response is on its way.
Fetch(max) ==
  /\ fetch.sent < max
  /\ fetch' = getTasksSent
  /\ resp' = NoResp
  /\ UNCHANGED <<tasks, nextId, clock, reqs, nreq, disk, readyState, inbox, nemit>>
  /\ UNCHANGED <<net, completedAt, local>>
  /\ UNCHANGED <<server, page>>

\* The response arrives: state.tasks = tasks; api.getTasks throws on a
\* response that is not ok and fetchAndRender only logs it.
FetchArrive(f) ==
  /\ f \in fetch.inflight
  /\ fetch' = [fetch EXCEPT !.inflight = @ \ {f}]
  /\ local' = IF f.ok THEN f.ret ELSE local
  /\ resp' = NoResp
  /\ UNCHANGED <<tasks, nextId, clock, reqs, nreq, disk, readyState, inbox, nemit>>
  /\ UNCHANGED <<net, completedAt>>
  /\ UNCHANGED <<server, page>>

\* state.ws.onmessage: the next message of the socket c arrives at the
\* browser client.
ReceiveOn(c) ==
  /\ c \notin broken
  /\ delivered[c] < Len(inbox[c])
  /\ delivered' = [delivered EXCEPT ![c] = @ + 1]
  /\ local' = handleWebSocketMessage(local, inbox[c][delivered[c] + 1])
  /\ resp' = NoResp
  /\ UNCHANGED <<tasks, nextId, clock, reqs, nreq, disk, readyState, inbox, nemit, broken>>
  /\ UNCHANGED <<completedAt, fetch>>
  /\ UNCHANGED <<server, page>>

Receive == ReceiveOn(Browser)

(***************************************************************************)
(* The connection of the browser client.                                   *)
(***************************************************************************)
RECURSIVE pow(_, _)
pow(b, n) == IF n = 0 THEN 1 ELSE b * pow(b, n - 1)

min(a, b) == IF a <= b THEN a ELSE b

\* scheduleReconnect with the delay computed before the counter is raised.
scheduleReconnectThenCount(p) ==
  [p EXCEPT !.reconnectAttempts = @ + 1,
            !.delay = min(1000 * pow(2, p.reconnectAttempts), 30000),
            !.timers = @ + 1]

\* scheduleReconnect run by the error handler and again by the close handler.
scheduleReconnectTwice(p) ==
  [p EXCEPT !.reconnectAttempts = @ + 2,
            !.delay = min(1000 * pow(2, p.reconnectAttempts + 2), 30000),
            !.timers = @ + 2]

\* scheduleReconnect: the counter is raised, then the timer is set.
scheduleReconnect(p) ==
  [p EXCEPT !.reconnectAttempts = @ + 1,
            !.delay = min(1000 * pow(2, p.reconnectAttempts + 1), 30000),
            !.timers = @ + 1]

\* The socket of the server that a new WebSocket of the page reaches: the
\* next one the server has not used, or 0 when it reaches none.
Reachable ==
  {0} \cup {c \in Subs : /\ server = "listening"
                         /\ readyState[c] = CONNECTING
                         /\ \A d \in 1..(c - 1) : readyState[d] # CONNECTING}

\* connectWebSocket: new WebSocket(wsUrl) throws and the catch block calls
\* scheduleReconnect, or state.ws is a socket that is connecting towards sub
\* with its four handlers set.
connectWebSocket(p, throws, sub) ==
  IF throws THEN scheduleReconnect(p)
  ELSE [p EXCEPT !.ws = "connecting", !.sub = sub]

\* What a step of the page leaves alone.
PageFrame ==
  /\ resp' = NoResp
  /\ UNCHANGED <<tasks, nextId, clock, reqs, nreq, disk, readyState, inbox, nemit>>
  /\ UNCHANGED <<net, completedAt, local, server>>

\* init(): connectWebSocket(), then fetchAndRender() up to its await.
PageInit(max) ==
  /\ ~page.loaded
  /\ \E throws \in BOOLEAN, sub \in Reachable :
       /\ throws => page.reconnectAttempts < max
       /\ page' = [connectWebSocket(page, throws, sub) EXCEPT !.loaded = TRUE]
  /\ fetch' = getTasksSent
  /\ PageFrame

\* state.ws.onopen, once the server has accepted the connection.
PageOpen ==
  /\ page.ws = "connecting"
  /\ page.sub # 0
  /\ readyState[page.sub] = OPEN
  /\ page.sub \notin broken
  /\ page' = [page EXCEPT !.ws = "open", !.connected = TRUE, !.reconnectAttempts = 0]
  /\ UNCHANGED fetch
  /\ PageFrame

\* state.ws.onclose (after onerror, which only logs, when the connection
\* failed): the connection reached no server, or the server's socket is
\* closed, or the connection broke.
PageClose(max) ==
  /\ page.ws \in {"connecting", "open"}
  /\ \/ page.sub = 0
     \/ page.sub # 0 /\ readyState[page.sub] = CLOSED
     \/ page.sub \in broken
  /\ page.reconnectAttempts < max
  /\ page' = scheduleReconnect([page EXCEPT !.ws = "closed", !.connected = FALSE])
  /\ UNCHANGED fetch
  /\ PageFrame

\* The timer of scheduleReconnect fires: connectWebSocket().
TimerFires(max) ==
  /\ page.timers > 0
  /\ \E throws \in BOOLEAN, sub \in Reachable :
       /\ throws => page.reconnectAttempts < max
       /\ page' = connectWebSocket([page EXCEPT !.timers = @ - 1], throws, sub)
  /\ UNCHANGED fetch
  /\ PageFrame

\* wss.on('connection') for the socket the page is connecting to.
PageAccepted == page.ws = "connecting" /\ page.sub # 0 /\ Connect(page.sub)

\* A message arrives on the page's open socket.
PageReceive == page.ws = "open" /\ page.sub # 0 /\ ReceiveOn(page.sub)

\* loadTasks up to its first await that can fail: readFile and JSON.parse of
\* a file this server wrote give the collection and start() goes on to
\* server.listen; ENOENT gives [] and then await saveTasks(); any other
\* failure of readFile or of JSON.parse gives [] and start() goes on.
loadTasks ==
  /\ server = "loading"
  /\ tasks' = IF disk.state = "written" THEN disk.data ELSE <<>>
  /\ server' = IF disk.state = "missing" THEN "saving" ELSE "listening"
  /\ resp' = NoResp
  /\ UNCHANGED <<nextId, clock, reqs, nreq, disk, readyState, inbox, nemit>>
  /\ UNCHANGED <<net, completedAt, browser, page>>

\* The save of loadTasks resolved: the file holds [] and start() goes on to
\* server.listen.
StartSaved ==
  /\ server = "saving"
  /\ disk' = [state |-> "written", data |-> tasks]
  /\ server' = "listening"
  /\ resp' = NoResp
  /\ UNCHANGED <<tasks, nextId, clock, reqs, nreq, readyState, inbox, nemit>>
  /\ UNCHANGED <<net, completedAt, browser, page>>

\* A start() that logs the failed save and goes on to server.listen.
StartSaveFailedListens ==
  /\ server = "saving"
  /\ server' = "listening"
  /\ resp' = NoResp
  /\ UNCHANGED <<tasks, nextId, clock, reqs, nreq, disk, readyState, inbox, nemit>>
  /\ UNCHANGED <<net, completedAt, browser, page>>

\* The save of loadTasks rejected: saveTasks rethrows, loadTasks rejects and
\* the catch block of start() calls process.exit(1).
StartSaveFailed ==
  /\ server = "saving"
  /\ server' = "exited"
  /\ resp' = NoResp
  /\ UNCHANGED <<tasks, nextId, clock, reqs, nreq, disk, readyState, inbox, nemit>>
  /\ UNCHANGED <<net, completedAt, browser, page>>

\* Time passes, up to the instant max.
Advance(max) ==
  /\ clock < max
  /\ clock' = clock + 1
  /\ resp' = NoResp
  /\ UNCHANGED <<tasks, nextId, reqs, nreq, disk, readyState, inbox, nemit>>
  /\ UNCHANGED net
  /\ UNCHANGED <<completedAt, browser>>
  /\ UNCHANGED <<server, page>>

Tick == Advance(MaxClock)

Store(in) ==
  \/ Get(in)
  \/ Create(in)
  \/ Update(in)
  \/ Move(in)
  \/ Delete(in)
  \/ BulkCreate(in)
  \/ ClearDone(in)

Save ==
  \/ \E r \in reqs : MkdirDone(r)
  \/ \E r \in reqs : WriteDone(r)
  \/ \E r \in reqs : SaveFail(r)

Hub ==
  \/ \E c \in Subs : Connect(c)
  \/ \E c \in Subs : BeginClose(c)
  \/ \E c \in Subs : Closed(c)

\* Every input, valid and invalid, one save at a time.
AllInputs ==
  [ids |-> TargetIds, create |-> CreateBodies, update |-> UpdateBodies,
   move |-> MoveBodies, bulk |-> BulkArgs, queries |-> Queries,
   max |-> MaxReqs, inflight |-> 1]

Next == Store(AllInputs) \/ Save

Spec == Init /\ [][Next]_vars

TwoTasks ==
  [isArray |-> TRUE,
   elems |-> <<[EmptyBody EXCEPT !.title = sA],
               [EmptyBody EXCEPT !.title = sB, !.status = sDone]>>]

\* Requests that issue, carry and remove ids.
IdInputs ==
  [ids |-> TargetIds,
   create |-> {[EmptyBody EXCEPT !.title = sA]},
   update |-> {[EmptyBody EXCEPT !.id = Uuid(2), !.created_at = Iso(MaxClock + 1),
                                 !.updated_at = Iso(MaxClock + 1)]},
   move |-> {[EmptyBody EXCEPT !.status = sDone, !.id = Uuid(2)]},
   bulk |-> {TwoTasks},
   queries |-> {sDone, Str(<<"todo">>), Undef},
   max |-> IdReqs, inflight |-> 1]

NextIds == Store(IdInputs) \/ Save

SpecIds == Init /\ [][NextIds]_vars

\* The same requests as time passes between them.
TimeInputs == [IdInputs EXCEPT !.max = TimeReqs]

NextTime == Store(TimeInputs) \/ Save \/ Tick

SpecTime == Init /\ [][NextTime]_vars

\* The requests that broadcast, on the first task, while subscribers come and go.
HubInputs ==
  [ids |-> {Uuid(1)},
   create |-> {[EmptyBody EXCEPT !.title = sA]},
   update |-> {[EmptyBody EXCEPT !.assignee = Str(<<"x">>)]},
   move |-> {[EmptyBody EXCEPT !.status = sDone]},
   bulk |-> {TwoTasks},
   queries |-> {sDone},
   max |-> HubReqs, inflight |-> 1]

NextHub == Store(HubInputs) \/ Save \/ Hub

SpecHub == Init /\ [][NextHub]_vars

\* Tasks created with an order, then moved with and without one.
MoveInputs ==
  [ids |-> TargetIds,
   create |-> {[EmptyBody EXCEPT !.title = sA, !.order = Num(2)]},
   update |-> {},
   move |-> {[EmptyBody EXCEPT !.status = sDone],
             [EmptyBody EXCEPT !.status = Str(<<"todo">>), !.order = Num(0)],
             [EmptyBody EXCEPT !.status = Str(<<"review">>), !.order = Null]},
   bulk |-> {},
   queries |-> {},
   max |-> MoveReqs, inflight |-> 1]

NextMove == Create(MoveInputs) \/ Move(MoveInputs) \/ Save

SpecMove == Init /\ [][NextMove]_vars

\* Field sets that keep and break each rule of the Validator: with and
\* without a good title, at most one other field given, then the bad titles,
\* and one field set with every optional field good.
FieldSets ==
  {[EmptyBody EXCEPT !.title = t, !.status = st] :
     t \in {Undef, sB}, st \in {Undef, sDone, sBogus}}
  \cup {[EmptyBody EXCEPT !.title = t, !.priority = sBogus] : t \in {Undef, sB}}
  \cup {[EmptyBody EXCEPT !.title = t, !.tags = tg] :
          t \in {Undef, sB},
          tg \in {Arr(<<Str(<<"x">>)>>), Arr(<<Str(<<"x">>), Num(5)>>), Str(<<"x">>)}}
  \cup {[EmptyBody EXCEPT !.title = t] : t \in {sBlank, Str(<<>>), Num(5)}}
  \cup {[EmptyBody EXCEPT !.status = sDone, !.tags = Arr(<<Str(<<"x">>)>>)]}

ValidatorInputs ==
  [ids |-> {Uuid(1)}, create |-> FieldSets, update |-> FieldSets,
   max |-> ValidReqs, inflight |-> 1]

NextValid == Create(ValidatorInputs) \/ Update(ValidatorInputs) \/ Save

SpecValid == Init /\ [][NextValid]_vars

\* Payloads whose description, assignee and order are values of every kind.
FieldInputs ==
  [ids |-> {Uuid(1)},
   create |-> {[EmptyBody EXCEPT !.title = sB, !.order = Num(0),
                                 !.description = Str(<<"x">>)],
               [EmptyBody EXCEPT !.title = sA, !.description = Num(0)],
               [EmptyBody EXCEPT !.title = sA, !.description = Num(5)],
               [EmptyBody EXCEPT !.title = sA, !.order = Str(<<"b">>)],
               [EmptyBody EXCEPT !.title = sA, !.order = Str(<<"a">>)]},
   update |-> {[EmptyBody EXCEPT !.order = Arr(<<>>)]},
   move |-> {[EmptyBody EXCEPT !.status = sDone, !.order = Str(<<"x">>)]},
   bulk |-> {[isArray |-> TRUE, elems |-> <<[EmptyBody EXCEPT !.title = sA, !.assignee = Null]>>],
             [isArray |-> TRUE, elems |-> <<[EmptyBody EXCEPT !.title = sA, !.order = Null]>>]},
   lists |-> {NoQuery, [NoQuery EXCEPT !.search = Str(<<"x">>)]},
   max |-> FieldReqs, inflight |-> 1]

NextFields ==
  \/ Create(FieldInputs)
  \/ BulkCreate(FieldInputs)
  \/ Update(FieldInputs)
  \/ Move(FieldInputs)
  \/ List(FieldInputs)
  \/ Save

SpecFields == Init /\ [][NextFields]_vars

sTodo == Str(<<"todo">>)
sHigh == Str(<<"high">>)

\* Tasks that differ in what each filter looks at: "ab" is in a title, in a
\* description, or only in the tags and the assignee.
ListBodies ==
  {[EmptyBody EXCEPT !.title = Str(<<"A", "b">>), !.status = sTodo, !.priority = sHigh,
                     !.assignee = Str(<<"x">>), !.order = Num(2)],
   [EmptyBody EXCEPT !.title = Str(<<"c">>), !.description = Str(<<"x", "a", "B">>),
                     !.status = sTodo, !.order = Num(1)],
   [EmptyBody EXCEPT !.title = Str(<<"c">>), !.tags = Arr(<<Str(<<"a", "b">>)>>),
                     !.assignee = Str(<<"a", "b">>), !.priority = sHigh],
   [EmptyBody EXCEPT !.title = Str(<<"c">>), !.status = sDone, !.assignee = Str(<<"x">>)]}

\* req.query: each filter absent, empty or with a value.
ListQueries ==
  {[status |-> st, priority |-> pr, assignee |-> asg, search |-> se] :
     st \in {Undef, Str(<<>>), sTodo},
     pr \in {Undef, sHigh},
     asg \in {Undef, Str(<<"x">>)},
     se \in {Undef, Str(<<"a", "B">>)}}

ListInputs ==
  [ids |-> {Uuid(1)}, create |-> ListBodies, lists |-> ListQueries,
   max |-> ListReqs, inflight |-> 1]

NextList ==
  \/ Create(ListInputs)
  \/ Delete(ListInputs)
  \/ List(ListInputs)
  \/ Stats(ListInputs)
  \/ Save

SpecList == Init /\ [][NextList]_vars

\* A task is made, reaches done and is edited, while time passes.
StatsInputs ==
  [ids |-> {Uuid(1)},
   create |-> {[EmptyBody EXCEPT !.title = sA], [EmptyBody EXCEPT !.title = sA, !.status = sDone]},
   update |-> {[EmptyBody EXCEPT !.title = sB]},
   move |-> {[EmptyBody EXCEPT !.status = sDone]},
   max |-> StatsReqs, inflight |-> 1]

NextStats ==
  \/ Create(StatsInputs)
  \/ Update(StatsInputs)
  \/ Move(StatsInputs)
  \/ Stats(StatsInputs)
  \/ Advance(StatsClock)
  \/ Save

SpecStats == Init /\ [][NextStats]_vars

\* Requests that pass validation, two of them at a time, and saves that
\* all succeed.
RaceInputs ==
  [ids |-> {Uuid(1)},
   create |-> {[EmptyBody EXCEPT !.title = sA]},
   update |-> {[EmptyBody EXCEPT !.title = sB]},
   move |-> {[EmptyBody EXCEPT !.status = sDone]},
   max |-> RaceReqs, inflight |-> MaxInflight]

NextRace ==
  \/ Create(RaceInputs)
  \/ Update(RaceInputs)
  \/ Move(RaceInputs)
  \/ \E c \in Subs : Connect(c)
  \/ \E r \in reqs : MkdirDone(r)
  \/ \E r \in reqs : WriteDone(r)

SpecRace == Init /\ [][NextRace]_vars

\* The browser client and requests of any client that pass validation, one
\* at a time, with saves that all succeed.
ClientInputs ==
  [ids |-> {Uuid(1)},
   create |-> {[EmptyBody EXCEPT !.title = sA]},
   update |-> {[EmptyBody EXCEPT !.title = sB]},
   max |-> ClientReqs, inflight |-> 1]

NextClient ==
  \/ Create(ClientInputs)
  \/ Update(ClientInputs)
  \/ Delete(ClientInputs)
  \/ Connect(Browser)
  \/ \E r \in reqs : MkdirDone(r)
  \/ \E r \in reqs : WriteDone(r)
  \/ Fetch(ClientFetches)
  \/ \E f \in fetch.inflight : FetchArrive(f)
  \/ Receive

SpecClient == Init /\ [][NextClient]_vars

\* Two tasks, then an Update or a Move of either with payloads that name
\* some fields, among them fields the route does not take.
FrameInputs ==
  [ids |-> TargetIds,
   bulk |-> {TwoTasks},
   update |-> {[EmptyBody EXCEPT !.title = sB],
               [EmptyBody EXCEPT !.assignee = Str(<<"x">>), !.description = Str(<<"y">>)],
               [EmptyBody EXCEPT !.id = Uuid(2), !.order = Num(5)]},
   move |-> {[EmptyBody EXCEPT !.status = sDone],
             [EmptyBody EXCEPT !.status = Str(<<"review">>), !.order = Num(1),
                               !.priority = Str(<<"high">>), !.title = sB]},
   max |-> FrameReqs, inflight |-> 1]

NextFrame ==
  \/ BulkCreate(FrameInputs)
  \/ Update(FrameInputs)
  \/ Move(FrameInputs)
  \/ Save

SpecFrame == Init /\ [][NextFrame]_vars

\* Two tasks of one status made in the reverse of their order values, and
\* the three reads, while subscribers connect.
ReadInputs ==
  [ids |-> TargetIds,
   create |-> {[EmptyBody EXCEPT !.title = Str(<<"A", "b">>), !.status = sTodo, !.order = Num(2)],
               [EmptyBody EXCEPT !.title = Str(<<"c">>), !.status = sTodo, !.order = Num(1)]},
   lists |-> {NoQuery,
              [NoQuery EXCEPT !.status = sTodo],
              [NoQuery EXCEPT !.search = Str(<<"a", "B">>)]},
   max |-> ReadReqs, inflight |-> 1]

NextRead ==
  \/ Create(ReadInputs)
  \/ Get(ReadInputs)
  \/ List(ReadInputs)
  \/ Stats(ReadInputs)
  \/ \E c \in Subs : Connect(c)
  \/ Save

SpecRead == Init /\ [][NextRead]_vars

\* A task that an earlier run of the server saved.
StoredTask == newTask([EmptyBody EXCEPT !.title = sB], Uuid(0), Iso(0))

\* The process has started and start() has not run: the file is missing,
\* cannot be read, does not parse, or holds what an earlier run saved.
InitStart ==
  /\ tasks = <<>>
  /\ nextId = 1
  /\ clock = 0
  /\ reqs = {}
  /\ nreq = 0
  /\ resp = NoResp
  /\ disk \in {[state |-> "missing", data |-> <<>>],
               [state |-> "unreadable", data |-> <<>>],
               [state |-> "unparsable", data |-> <<>>],
               [state |-> "written", data |-> <<StoredTask>>]}
  /\ readyState = [c \in Subs |-> CONNECTING]
  /\ inbox = [c \in Subs |-> <<>>]
  /\ nemit = 0
  /\ delivered = [c \in Subs |-> 0]
  /\ broken = {}
  /\ completedAt = <<>>
  /\ local = <<>>
  /\ fetch = [sent |-> 0, inflight |-> {}]
  /\ server = "loading"
  /\ page = NoPage

StartInputs ==
  [ids |-> {Uuid(0), Uuid(1)},
   create |-> {[EmptyBody EXCEPT !.title = sA]},
   max |-> StartReqs, inflight |-> 1]

NextStart ==
  \/ loadTasks
  \/ StartSaved
  \/ StartSaveFailed
  \/ Create(StartInputs)
  \/ Get(StartInputs)
  \/ Delete(StartInputs)
  \/ Save

SpecStart == InitStart /\ [][NextStart]_vars

\* The page connects, is accepted or not, loses its socket and retries.
NextPage ==
  \/ PageInit(MaxAttempts)
  \/ PageAccepted
  \/ PageOpen
  \/ PageClose(MaxAttempts)
  \/ TimerFires(MaxAttempts)
  \/ \E c \in Subs : BeginClose(c)
  \/ \E c \in Subs : Closed(c)
  \/ \E f \in fetch.inflight : FetchArrive(f)

SpecPage == Init /\ [][NextPage]_vars

\* The page loses its socket and reconnects while other clients change the
\* collection; their requests are handled while no list response of the page
\* is on its way, and every save succeeds.
ReconnectInputs ==
  [ids |-> {Uuid(1)},
   create |-> {[EmptyBody EXCEPT !.title = sA]},
   update |-> {[EmptyBody EXCEPT !.title = sB]},
   max |-> ReconnectReqs, inflight |-> 1]

NextReconnect ==
  \/ PageInit(Retries)
  \/ PageAccepted
  \/ PageOpen
  \/ PageClose(Retries)
  \/ TimerFires(Retries)
  \/ PageReceive
  \/ \E c \in Subs : BeginClose(c)
  \/ \E c \in Subs : Closed(c)
  \/ \E f \in fetch.inflight : FetchArrive(f)
  \/ (fetch.inflight = {} /\ Create(ReconnectInputs))
  \/ (fetch.inflight = {} /\ Update(ReconnectInputs))
  \/ (fetch.inflight = {} /\ Delete(ReconnectInputs))
  \/ \E r \in reqs : MkdirDone(r)
  \/ \E r \in reqs : WriteDone(r)

SpecReconnect == Init /\ [][NextReconnect]_vars

Net ==
  \/ \E c \in Subs : Connect(c)
  \/ \E c \in Subs : Break(c)
  \/ \E c \in Subs : Deliver(c)
  \/ \E c \in Subs : Dropped(c)

\* Creates and deletes while messages are in transit and connections fail.
NetInputs == [HubInputs EXCEPT !.max = NetReqs]

NextNet == Create(NetInputs) \/ Delete(NetInputs) \/ Save \/ Net

SpecNet == Init /\ [][NextNet]_vars

\* Requests arriving while others wait for their save.
ConcInputs ==
  [ids |-> TargetIds,
   create |-> {[EmptyBody EXCEPT !.title = sA]},
   update |-> {[EmptyBody EXCEPT !.title = sB], [EmptyBody EXCEPT !.assignee = Str(<<"x">>)]},
   move |-> {[EmptyBody EXCEPT !.status = sDone]},
   bulk |-> {TwoTasks},
   queries |-> {sDone},
   max |-> ConcReqs, inflight |-> MaxInflight]

NextConc == Store(ConcInputs) \/ Save

SpecConc == Init /\ [][NextConc]_vars

(***************************************************************************)
(* Properties.                                                             *)
(***************************************************************************)
Range(q) == {q[i] : i \in DOMAIN q}
Ids(ts) == {ts[i].id : i \in DOMAIN ts}

\* The requests whose handler reached await saveTasks() in this step, and
\* those whose handler finished in this step.
Arrived == {r \in reqs' : r.pc = "mkdir" /\ \A q \in reqs : q.n # r.n}
Finished == {r \in reqs : \A q \in reqs' : q.n # r.n}

\* C1: in every reachable state every task of the collection has a status
\* among the five statuses and a priority among the four priorities.
C1_EnumsHold ==
  \A i \in DOMAIN tasks :
    /\ Includes(VALID_STATUSES, tasks[i].status)
    /\ Includes(VALID_PRIORITIES, tasks[i].priority)

\* A task created with priority high and status done was moved to todo.
C1_Witness ==
  \E i \in DOMAIN tasks :
    /\ tasks[i].status = Str(<<"todo">>)
    /\ tasks[i].priority = Str(<<"high">>)

\* C2: a Create, Update or Move answered 400 or by the catch block before the
\* save, and a Get, Update, Move or Delete answered 404, leaves the collection
\* as it was, starts no save, writes nothing and emits no event.
C2_RejectedNoEffect ==
  [][(/\ resp'.kind \in {"create", "update", "move", "get", "delete"}
      /\ resp'.why \in {"validation", "notfound", "exception"})
     => /\ tasks' = tasks
        /\ reqs' = reqs
        /\ disk' = disk
        /\ inbox' = inbox
        /\ nemit' = nemit]_vars

\* A Move with a status outside the enumeration was answered 400 on an existing task.
C2_Witness == resp.kind = "move" /\ resp.status = 400 /\ Len(tasks) > 0

\* C3: after every step no two tasks share an id, every id in the collection
\* is one uuidv4() returned, and an id that enters the collection is one
\* uuidv4() returned in this step, so it differs from every id issued before.
C3_IdsUnique ==
  [][/\ \A i, j \in DOMAIN tasks' : i # j => tasks'[i].id # tasks'[j].id
     /\ nextId' >= nextId
     /\ \A j \in DOMAIN tasks' :
          \/ tasks'[j].id \in Ids(tasks)
          \/ /\ tasks'[j].id.t = "uuid"
             /\ tasks'[j].id.n >= nextId
             /\ tasks'[j].id.n < nextId']_vars

\* A Create has just succeeded after the task of an earlier id was removed.
C3_Witness ==
  /\ resp.kind = "create"
  /\ resp.status = 201
  /\ resp.ret[1] \in Range(tasks)
  /\ \E k \in 1..(nextId - 1) : Uuid(k) \notin Ids(tasks) /\ resp.ret[1].id.n > k

\* C4: an Update or a Move leaves every task at its position with the id and
\* created_at it had, and in any step a task that stays in the collection
\* keeps its created_at.
C4_IdCreatedKept ==
  [][/\ \A r \in Arrived :
          r.kind \in {"update", "move"} =>
            /\ Len(tasks') = Len(tasks)
            /\ \A i \in DOMAIN tasks :
                 /\ tasks'[i].id = tasks[i].id
                 /\ tasks'[i].created_at = tasks[i].created_at
     /\ \A i \in DOMAIN tasks, j \in DOMAIN tasks' :
          tasks'[j].id = tasks[i].id => tasks'[j].created_at = tasks[i].created_at]_vars

\* An Update whose payload carried another id and created_at was applied
\* after the clock had advanced.
C4_Witness ==
  \E r \in reqs :
    /\ r.kind = "update"
    /\ r.body.id.t # "undefined"
    /\ r.body.created_at.t # "undefined"
    /\ r.ret[1].id # r.body.id
    /\ r.ret[1].updated_at # r.ret[1].created_at

EventType(kind) ==
  CASE kind = "create" -> "task_created"
    [] kind = "update" -> "task_updated"
    [] kind = "move" -> "task_moved"
    [] kind = "delete" -> "task_deleted"
    [] OTHER -> "none"

\* C5: when the handler of a Create, Update, Move or Delete that changed the
\* collection finishes, every subscriber that is OPEN has been sent exactly
\* one more message, of the operation's type, carrying the task after the
\* operation (for Delete the removed task).
C5_OneEventPerMutation ==
  [][\A r \in Finished :
       r.kind \in {"create", "update", "move", "delete"} =>
         \A c \in Subs :
           readyState[c] = OPEN =>
             /\ Len(inbox'[c]) = Len(inbox[c]) + 1
             /\ LET e == inbox'[c][Len(inbox'[c])] IN
                  /\ e.type = EventType(r.kind)
                  /\ r.kind = "delete" => e.task.id = r.id
                  /\ r.kind # "delete" => e.task = r.ret[1]]_vars

\* C6: a socket that is not OPEN is sent nothing, whether it has not
\* connected yet, is closing or is closed; connecting replays nothing; and a
\* step that emits answers its request with success.
C6_OnlyOpenReceive ==
  [][/\ \A c \in Subs : readyState[c] # OPEN => inbox'[c] = inbox[c]
     /\ nemit' # nemit => resp'.why = "ok" /\ resp'.status \in {200, 201, 204}]_vars

\* One subscriber stopped receiving after it left OPEN and another, which
\* connected after the first message was emitted, received only the later ones.
C6_Witness ==
  \E c, d \in Subs :
    /\ readyState[c] \in {CLOSING, CLOSED}
    /\ readyState[d] = OPEN
    /\ Len(inbox[c]) > 0
    /\ Len(inbox[c]) < nemit
    /\ Len(inbox[d]) > 0
    /\ Len(inbox[d]) < nemit

\* The messages the step hands to broadcastToClients, in the handler's order.
StepEvents ==
  IF \E r \in Finished : resp'.why = "ok"
  THEN LET r == CHOOSE q \in Finished : TRUE IN StampedAll(r.pending, Iso(clock))
  ELSE <<>>

\* C7: in every step each OPEN subscriber's stream grows by exactly the
\* messages the step emits, in the order emitted, whatever task they concern.
C7_OrderedComplete ==
  [][\A c \in Subs : readyState[c] = OPEN => inbox'[c] = inbox[c] \o StepEvents]_vars

\* An OPEN subscriber has received three messages, two of them about the same
\* task and one about another.
C7_Witness ==
  \E c \in Subs :
    /\ readyState[c] = OPEN
    /\ Len(inbox[c]) = 3
    /\ nemit = 3
    /\ \E i, j, k \in DOMAIN inbox[c] :
         /\ i < j
         /\ inbox[c][i].task.id = inbox[c][j].task.id
         /\ inbox[c][k].task.id # inbox[c][i].task.id

TaskKeys ==
  {"id", "title", "description", "status", "priority", "tags", "assignee", "created_at",
   "updated_at", "order"}

\* C8: the collection changes only in the step in which a request's handler
\* runs, and then by that whole operation at once; an id that left the
\* collection never returns; an Update arriving while another Update of the
\* same task waits for its save keeps every field that Update set and this
\* one does not; a Get answers with a task as it is in the collection.
C8_Linearized ==
  [][/\ tasks' # tasks => nreq' = nreq + 1 /\ reqs \subseteq reqs'
     /\ \A j \in DOMAIN tasks' : tasks'[j].id \in Ids(tasks) \/ tasks'[j].id.n >= nextId
     /\ \A r2 \in Arrived, r1 \in reqs :
          (/\ r1.kind = "update"
           /\ r2.kind = "update"
           /\ r1.id = r2.id
           /\ r1.ret[1] \in Range(tasks))
          => /\ r2.ret[1] \in Range(tasks')
             /\ \A f \in TaskKeys \ {"updated_at"} :
                  r2.body[f].t = "undefined" => r2.ret[1][f] = r1.ret[1][f]
     /\ (resp'.kind = "get" /\ resp'.status = 200) => resp'.ret[1] \in Range(tasks)]_vars

\* Two Updates of one task, one of the title and one of the assignee, both
\* wait for their save and the task has both values.
C8_Witness ==
  \E r1, r2 \in reqs :
    /\ r1.n < r2.n
    /\ r1.kind = "update"
    /\ r2.kind = "update"
    /\ r1.id = r2.id
    /\ r1.body.title.t # "undefined"
    /\ r2.body.assignee.t # "undefined"
    /\ \E i \in DOMAIN tasks :
         /\ tasks[i].id = r1.id
         /\ tasks[i].title = Str(<<"B">>)
         /\ tasks[i].assignee = Str(<<"x">>)

\* C9: when the save of a request fails the answer is 500 and the step
\* leaves the collection as the request changed it: the tasks it created or
\* updated are in it, the tasks it removed are not.
C9_SaveFailureKept ==
  [][resp'.why = "save" =>
       /\ resp'.status = 500
       /\ tasks' = tasks
       /\ \A r \in Finished :
            /\ \A i \in DOMAIN r.ret : r.ret[i] \in Range(tasks')
            /\ \A i \in DOMAIN r.pending :
                 r.pending[i].type = "task_deleted" => r.pending[i].task \notin Range(tasks')]_vars

\* A save failed and the collection is ahead of the file.
C9_Witness == resp.why = "save" /\ tasks # <<>> /\ tasks # disk.data

\* C10: every step that changes the collection is the step of a handler that
\* goes on to call saveTasks().
C10_SaveAfterMutation == [][tasks' # tasks => Arrived # {}]_vars

\* C11: the step in which a handler finishes after its save answers with the
\* handler's own result and appends the handler's messages to the stream of
\* every OPEN subscriber, whichever connections have failed and however many
\* messages are still in transit; a connection failing, a message arriving
\* and the server noticing a failed connection change neither the collection
\* nor the waiting handlers nor what was sent.
C11_DeliveryIndependent ==
  [][/\ \A r \in Finished :
          resp'.why = "ok" =>
            /\ resp' = Answer(r, TRUE)
            /\ \A c \in Subs :
                 readyState[c] = OPEN =>
                   inbox'[c] = BroadcastAll(inbox, StampedAll(r.pending, Iso(clock)))[c]
                   /\ Len(inbox'[c]) = Len(inbox[c]) + Len(r.pending)
     /\ (delivered' # delivered \/ broken' # broken \/ (reqs' = reqs /\ readyState' # readyState))
          => UNCHANGED <<tasks, reqs, disk, inbox, nemit>>]_vars

\* A Create was just answered 201 while the first subscriber's connection
\* had failed with nothing delivered; the second subscriber, whose earlier
\* message had arrived, was sent the new one.
C11_Witness ==
  /\ resp.why = "ok"
  /\ resp.status = 201
  /\ 1 \in broken
  /\ readyState[1] = OPEN
  /\ delivered[1] = 0
  /\ Len(inbox[1]) = 2
  /\ readyState[2] = OPEN
  /\ delivered[2] = 1
  /\ Len(inbox[2]) = 2

\* An element of a bulk list fails validation when the Validator reports a
\* message for it or raises on it.
ElementFails(data) ==
  \/ validateTaskInput(data, FALSE).threw
  \/ Len(validateTaskInput(data, FALSE).errors) > 0

Passing(elems) == SelectSeq(elems, LAMBDA e : ~ElementFails(e))

\* The 0-based indexes of the failing elements, in input order.
RECURSIVE FailingFrom(_, _)
FailingFrom(elems, i) ==
  IF i > Len(elems) THEN <<>>
  ELSE (IF ElementFails(elems[i]) THEN <<i - 1>> ELSE <<>>) \o FailingFrom(elems, i + 1)

\* C12: a BulkCreate whose list has a passing element reaches its save with
\* exactly the passing elements appended in input order under fresh distinct
\* ids and one error per failing element, tagged with its 0-based index; and
\* no such BulkCreate is answered before its save.
C12_BulkPartial ==
  [][/\ \A r \in Arrived :
          r.kind = "bulk" =>
            LET good == Passing(r.arg.elems)
                bad == FailingFrom(r.arg.elems, 1)
            IN /\ tasks' = tasks \o r.ret
               /\ Len(r.ret) = Len(good)
               /\ \A k \in DOMAIN r.ret :
                    /\ r.ret[k].title = Trim(good[k].title)
                    /\ r.ret[k].id = Uuid(nextId + k - 1)
               /\ r.status = 201
               /\ Len(r.errs) = Len(bad)
               /\ \A k \in DOMAIN r.errs : r.errs[k].index = bad[k]
     /\ (/\ resp'.kind = "bulk"
         /\ resp'.why # "save"
         /\ resp'.arg.isArray
         /\ Passing(resp'.arg.elems) # <<>>)
        => resp'.status = 201 /\ resp'.why = "ok"]_vars

\* C13: a BulkCreate whose list is not empty and has no passing element is
\* answered 400 or 500 in the step it arrives, which leaves the collection,
\* the waiting handlers, the file and every subscriber's stream as they
\* were; no such request reaches saveTasks().
C13_AllFailNothing ==
  [][/\ (/\ resp'.kind = "bulk"
         /\ resp'.arg.isArray
         /\ resp'.arg.elems # <<>>
         /\ Passing(resp'.arg.elems) = <<>>)
        => /\ resp'.status \in {400, 500}
           /\ tasks' = tasks
           /\ reqs' = reqs
           /\ disk' = disk
           /\ inbox' = inbox
           /\ nemit' = nemit
     /\ \A r \in Arrived :
          r.kind = "bulk" => r.arg.elems = <<>> \/ Passing(r.arg.elems) # <<>>]_vars

\* A list of two failing elements was answered 400 with both indexed errors
\* while the collection held a task.
C13_Witness ==
  /\ resp.kind = "bulk"
  /\ resp.status = 400
  /\ Len(resp.arg.elems) = 2
  /\ Len(resp.errs) = 2
  /\ resp.errs[1].index = 0
  /\ resp.errs[2].index = 1
  /\ tasks # <<>>

C15_ClearDoneExact ==
  [][/\ \A r \in Arrived :
          r.kind = "clear" =>
            /\ r.q = Str(<<"done">>)
            /\ tasks' = SelectSeq(tasks, LAMBDA t : t.status # Str(<<"done">>))
            /\ r.count = Cardinality({i \in DOMAIN tasks : tasks[i].status = Str(<<"done">>)})
     /\ (resp'.kind = "clear" /\ resp'.q # Str(<<"done">>))
        => /\ resp'.status = 400
           /\ tasks' = tasks
           /\ reqs' = reqs
     /\ \A r \in Finished :
          (r.kind = "clear" /\ resp'.why = "ok") => resp'.status = 200 /\ resp'.count = r.count]_vars

\* A ClearDone answered with count 1 after removing the done task that stood
\* between two tasks that are not done.
C15_Witness ==
  /\ resp.kind = "clear"
  /\ resp.status = 200
  /\ resp.count = 1
  /\ Len(tasks) = 2
  /\ tasks[1].id = Uuid(1)
  /\ tasks[2].id = Uuid(3)

\* C16: a Delete that reaches its save names a task of the collection and
\* leaves the collection without exactly that task, the others unchanged and
\* in their order; a Get, Update, Move or Delete of an id that is not in the
\* collection is answered 404 at once and never reaches a save; and no step
\* brings back an id that was in the collection before and is not now.
C16_DeleteExact ==
  [][/\ \A r \in Arrived :
          /\ r.kind = "delete" =>
               /\ r.id \in Ids(tasks)
               /\ r.id \notin Ids(tasks')
               /\ tasks' = SelectSeq(tasks, LAMBDA t : t.id # r.id)
               /\ Len(tasks') = Len(tasks) - 1
               /\ r.pending[1].task \in Range(tasks)
               /\ r.pending[1].task.id = r.id
          /\ r.kind \in {"update", "move"} => r.id \in Ids(tasks)
     /\ (/\ resp'.kind \in {"get", "update", "move", "delete"}
         /\ Finished = {}
         /\ resp'.id \notin Ids(tasks))
        => resp'.status = 404 /\ tasks' = tasks /\ reqs' = reqs
     /\ \A k \in 1..(nextId - 1) :
          Uuid(k) \notin Ids(tasks) => Uuid(k) \notin Ids(tasks')]_vars

\* The first of the tasks was deleted and a later Update of its id was
\* answered 404 while the second task was still there.
C16_Witness ==
  /\ resp.kind = "update"
  /\ resp.status = 404
  /\ resp.id = Uuid(1)
  /\ nextId > 2
  /\ Uuid(1) \notin Ids(tasks)
  /\ Uuid(2) \in Ids(tasks)

\* C17: an Update or Move that reaches its save has set its task's
\* updated_at to the instant of the call, whatever the payload carries, and
\* left every other task's updated_at alone; no task's updated_at is later
\* than the clock; so in every step a task that stays keeps or raises its
\* updated_at, and raises it when the clock has advanced since.
C17_UpdatedAtRefreshed ==
  [][/\ \A r \in Arrived :
          r.kind \in {"update", "move"} =>
            \A i \in DOMAIN tasks :
              IF tasks[i].id = r.id
              THEN /\ tasks'[i].updated_at = Iso(clock)
                   /\ r.ret[1].updated_at = Iso(clock)
                   /\ tasks[i].updated_at.n < clock
                        => tasks'[i].updated_at.n > tasks[i].updated_at.n
              ELSE tasks'[i].updated_at = tasks[i].updated_at
     /\ \A j \in DOMAIN tasks' :
          /\ tasks'[j].updated_at.t = "iso"
          /\ tasks'[j].updated_at.n <= clock'
     /\ \A i \in DOMAIN tasks, j \in DOMAIN tasks' :
          tasks'[j].id = tasks[i].id => tasks'[j].updated_at.n >= tasks[i].updated_at.n]_vars

\* A Move made after the clock advanced waits for its save with an
\* updated_at later than its created_at.
C17_Witness ==
  \E r \in reqs :
    /\ r.kind = "move"
    /\ r.ret[1].created_at = Iso(0)
    /\ r.ret[1].updated_at = Iso(MaxClock)
    /\ r.ret[1] \in Range(tasks)

\* C18: a Move that reaches its save has given its task the status asked
\* for and, when the payload has an order, whatever its value, exactly that
\* order; without one the task keeps the order it had.  Nothing else of the
\* task but updated_at changes.
C18_MoveOrder ==
  [][\A r \in Arrived :
       r.kind = "move" =>
         \A i \in DOMAIN tasks :
           tasks[i].id = r.id =>
             /\ tasks'[i].status = r.body.status
             /\ r.body.order.t = "undefined" => tasks'[i].order = tasks[i].order
             /\ r.body.order.t # "undefined" => tasks'[i].order = r.body.order
             /\ r.ret[1] = tasks'[i]
             /\ tasks'[i] = [tasks[i] EXCEPT !.status = tasks'[i].status,
                                             !.order = tasks'[i].order,
                                             !.updated_at = tasks'[i].updated_at]]_vars

\* A task created with order 2 was moved without an order and saved with
\* order 2, and a Move with order 0 has now set its order to 0.
C18_Witness ==
  \E r \in reqs :
    /\ r.kind = "move"
    /\ r.body.order = Num(0)
    /\ r.ret[1].order = Num(0)
    /\ r.ret[1] \in Range(tasks)
    /\ \E i \in DOMAIN disk.data :
         /\ disk.data[i].id = r.id
         /\ disk.data[i].status = sDone
         /\ disk.data[i].order = Num(2)

\* The payload of an Update or Move breaks a rule: for Update a rule of the
\* Validator in update mode, reported or raised on; for Move a status that
\* is missing or outside the enumeration.
PayloadInvalid(kind, body) ==
  IF kind = "update"
  THEN \/ validateTaskInput(body, TRUE).threw
       \/ Len(validateTaskInput(body, TRUE).errors) > 0
  ELSE ~Truthy(body.status) \/ ~Includes(VALID_STATUSES, body.status)

\* C19: an Update or Move of an id that is not in the collection is answered
\* 404 whatever its payload; of an id that is in the collection with a
\* payload that breaks a rule, 400 with the validation messages; and only a
\* request with an id of the collection and a valid payload reaches its save.
C19_IdThenPayload ==
  [][/\ (resp'.kind \in {"update", "move"} /\ Finished = {})
        => IF resp'.id \notin Ids(tasks)
           THEN resp'.status = 404
           ELSE /\ PayloadInvalid(resp'.kind, resp'.body)
                /\ resp'.status = 400
                /\ resp'.why = "validation"
                /\ resp'.errs # <<>>
     /\ \A r \in Arrived :
          r.kind \in {"update", "move"} =>
            r.id \in Ids(tasks) /\ ~PayloadInvalid(r.kind, r.body)]_vars

\* C20: a Create, or an Update of a task of the collection, whose fields
\* break a rule is answered 400 with the message of every rule they break,
\* in the order of the rules; the Validator raises on no field set, so none
\* is answered by the catch block.
C20_ValidatorTotal ==
  [][(/\ resp'.kind \in {"create", "update"}
      /\ Finished = {}
      /\ resp'.kind = "update" => resp'.id \in Ids(tasks))
     => /\ resp'.why # "exception"
        /\ ValidateErrors(resp'.body, resp'.kind = "update") # <<>>
        /\ resp'.status = 400
        /\ resp'.errs[1].msgs = ValidateErrors(resp'.body, resp'.kind = "update")]_vars

\* What the rules ask of a field set: in create mode a title that is
\* present and not empty; a title, if present, that is text with more than
\* whitespace in it; a status and a priority, if present, of their
\* enumerations; tags, if present, that are a sequence of text.
WellFormed(data, isUpdate) ==
  /\ isUpdate \/ (data.title.t # "undefined" /\ data.title # Str(<<>>))
  /\ data.title.t # "undefined" =>
       /\ data.title.t = "str"
       /\ \E i \in DOMAIN data.title.s : data.title.s[i] # " "
  /\ data.status.t # "undefined" => \E st \in Statuses : data.status = Str(<<st>>)
  /\ data.priority.t # "undefined" => \E pr \in Priorities : data.priority = Str(<<pr>>)
  /\ data.tags.t # "undefined" =>
       /\ data.tags.t = "arr"
       /\ \A i \in DOMAIN data.tags.a : data.tags.a[i].t = "str"

\* The Validator returns the empty list for the field set.
ReturnsEmpty(data, isUpdate) ==
  /\ ~validateTaskInput(data, isUpdate).threw
  /\ validateTaskInput(data, isUpdate).errors = <<>>

\* C21: for the field set of every Create, and of every Update of a task of
\* the collection, the Validator returns the empty list exactly when the
\* field set is as the rules ask, in the request's mode; the request goes on
\* to its save in that case and is answered with an error otherwise.
C21_ValidatorExact ==
  [][/\ \A r \in Arrived :
          r.kind \in {"create", "update"} =>
            /\ ReturnsEmpty(r.body, r.kind = "update")
            /\ WellFormed(r.body, r.kind = "update")
     /\ (/\ resp'.kind \in {"create", "update"}
         /\ Finished = {}
         /\ resp'.kind = "update" => resp'.id \in Ids(tasks))
        => /\ ~ReturnsEmpty(resp'.body, resp'.kind = "update")
           /\ ~WellFormed(resp'.body, resp'.kind = "update")
           /\ resp'.status \in {400, 500}]_vars

\* An Update without a title, with a status of the enumeration and tags
\* that are text, was accepted and waits for its save.
C21_Witness ==
  \E r \in reqs :
    /\ r.kind = "update"
    /\ r.body.title.t = "undefined"
    /\ r.body.status = sDone
    /\ r.body.tags = Arr(<<Str(<<"x">>)>>)
    /\ r.ret[1].status = sDone

\* The value a created task has for an optional field: the default when the
\* payload omits it, the payload's value otherwise.
Given(v, default) == IF v.t = "undefined" THEN default ELSE v

\* task has the fields the payload asks for.
Built(task, body) ==
  /\ task.title = Trim(body.title)
  /\ task.status = Given(body.status, Str(<<"backlog">>))
  /\ task.priority = Given(body.priority, Str(<<"medium">>))
  /\ task.description = Given(body.description, Str(<<>>))
  /\ task.tags = Given(body.tags, Arr(<<>>))
  /\ task.assignee = Given(body.assignee, Str(<<>>))
  /\ task.order = Given(body.order, Num(0))

\* C22: a Create that reaches its save has appended to the collection, and
\* returns, a task with the trimmed title, the default of every omitted
\* optional field and every supplied value as given; each task of a
\* BulkCreate whose elements all pass is built the same way.
C22_CreateStoresAsGiven ==
  [][\A r \in Arrived :
       /\ r.kind = "create" =>
            /\ tasks' = Append(tasks, r.ret[1])
            /\ Built(r.ret[1], r.body)
       /\ (r.kind = "bulk" /\ Len(r.ret) = Len(r.arg.elems)) =>
            \A k \in DOMAIN r.ret :
              /\ tasks'[Len(tasks) + k] = r.ret[k]
              /\ Built(r.ret[k], r.arg.elems[k])]_vars

\* ret is in ascending status rank and, within one status, in ascending
\* order value.
Ascending(ret) ==
  \A i, j \in DOMAIN ret :
    i < j =>
      /\ ~statusOrder(ret[i].status).nan /\ ~statusOrder(ret[j].status).nan
      /\ statusOrder(ret[i].status).n <= statusOrder(ret[j].status).n
      /\ ret[i].status = ret[j].status =>
           /\ ret[i].order.t = "num" /\ ret[j].order.t = "num"
           /\ ret[i].order.n <= ret[j].order.n

\* C24: every List result is in ascending status rank and, among the tasks
\* of one status, in ascending order value.
C24_ListAscending ==
  [][(resp'.kind = "list" /\ resp'.status = 200) => Ascending(resp'.ret)]_vars

\* C27: the order of every stored task is an integer.
C27_OrderInteger == \A i \in DOMAIN tasks : tasks[i].order.t = "num"

\* A filter is supplied when the query gives it a value that is not empty.
Supplied(v) == v.t = "str" /\ v.s # <<>>

\* The symbols of a text with its capital letters made small.
Small(text) ==
  [i \in DOMAIN text |->
     CASE text[i] = "A" -> "a" [] text[i] = "B" -> "b" [] OTHER -> text[i]]

\* part occurs in text, whatever the case of the letters of either.
Within(part, text) ==
  \E i \in 0..(Len(text) - Len(part)) :
    \A k \in DOMAIN part : Small(text)[i + k] = Small(part)[k]

\* task satisfies every filter the query supplies.
Satisfies(task, query) ==
  /\ Supplied(query.status) => task.status = query.status
  /\ Supplied(query.priority) => task.priority = query.priority
  /\ Supplied(query.assignee) => task.assignee = query.assignee
  /\ Supplied(query.search) =>
       \/ Within(query.search.s, task.title.s)
       \/ Within(query.search.s, task.description.s)

\* C23: a List that returns a result returns exactly the tasks of the
\* collection that satisfy every supplied filter, each of them once: status,
\* priority and assignee by equality, search by a substring of the title or
\* of the description whatever the case; with no filter supplied it returns
\* every task.
C23_ListExact ==
  [][(resp'.kind = "list" /\ resp'.status = 200) =>
       /\ Range(resp'.ret) = {t \in Range(tasks) : Satisfies(t, resp'.query)}
       /\ Len(resp'.ret) = Cardinality(Range(resp'.ret))
       /\ (\A f \in DOMAIN resp'.query : ~Supplied(resp'.query[f])) =>
            Range(resp'.ret) = Range(tasks)]_vars

\* A search for "aB" returned the task with "xaB" in its description and
\* not the other task of the collection, which has "ab" among its tags and
\* as its assignee only.
C23_Witness ==
  /\ resp.kind = "list"
  /\ resp.status = 200
  /\ resp.query = [NoQuery EXCEPT !.search = Str(<<"a", "B">>)]
  /\ Len(resp.ret) = 1
  /\ Len(tasks) = 2
  /\ resp.ret[1].description = Str(<<"x", "a", "B">>)
  /\ \E t \in Range(tasks) :
       /\ t.assignee = Str(<<"a", "b">>)
       /\ t.tags = Arr(<<Str(<<"a", "b">>)>>)
       /\ t \notin Range(resp.ret)

\* The number of tasks of ts whose field has the value named key.
Having(ts, field, key) == Cardinality({i \in DOMAIN ts : ts[i][field] = Str(<<key>>)})

RECURSIVE Sum(_, _)
Sum(f, keys) ==
  IF keys = {} THEN 0
  ELSE LET k == CHOOSE x \in keys : TRUE IN f[k] + Sum(f, keys \ {k})

\* C25: Stats returns the five status buckets and the four priority buckets,
\* each with the number of tasks of that value, and a total that is the size
\* of the collection, the sum of the status buckets and the sum of the
\* priority buckets.
C25_StatsBuckets ==
  [][resp'.kind = "stats" =>
       /\ resp'.status = 200
       /\ DOMAIN resp'.stats.byStatus = Statuses
       /\ DOMAIN resp'.stats.byPriority = Priorities
       /\ \A st \in Statuses : resp'.stats.byStatus[st] = Having(tasks, "status", st)
       /\ \A pr \in Priorities : resp'.stats.byPriority[pr] = Having(tasks, "priority", pr)
       /\ resp'.stats.total = Len(tasks)
       /\ resp'.stats.total = Sum(resp'.stats.byStatus, Statuses)
       /\ resp'.stats.total = Sum(resp'.stats.byPriority, Priorities)]_vars

\* Stats answered for two tasks, both high, one todo and one backlog, with
\* zero in the buckets of the values no task has.
C25_Witness ==
  /\ resp.kind = "stats"
  /\ resp.stats.total = 2
  /\ resp.stats.byStatus["todo"] = 1
  /\ resp.stats.byStatus["backlog"] = 1
  /\ resp.stats.byStatus["review"] = 0
  /\ resp.stats.byPriority["high"] = 2
  /\ resp.stats.byPriority["medium"] = 0

\* C26: the recentlyCompleted that Stats returns is the number of tasks that
\* are done and reached done no more than a day before the call.
C26_RecentlyCompleted ==
  [][resp'.kind = "stats" =>
       resp'.stats.recentlyCompleted =
         Cardinality({id \in DOMAIN completedAt : completedAt[id] >= clock - Day})]_vars

\* The places in the stream box of the events about the task id.
About(box, id) == {k \in DOMAIN box : box[k].task.id = id}

\* The last place of a non-empty set of places.
Last(places) == CHOOSE k \in places : \A m \in places : m <= k

\* C28: once every request has completed, the last event that a subscriber
\* who is open and was sent every event has for a task carries the task as
\* the collection has it.
C28_LastEventIsFinal ==
  \A c \in Subs :
    (reqs = {} /\ readyState[c] = OPEN /\ Len(inbox[c]) = nemit) =>
      \A i \in DOMAIN tasks :
        About(inbox[c], tasks[i].id) # {} =>
          inbox[c][Last(About(inbox[c], tasks[i].id))].task = tasks[i]

\* C30: once every request has completed, with every save having succeeded,
\* the file holds the collection.
C30_DiskIsCollection == reqs = {} => disk.data = tasks

\* The browser's socket is open and was sent every event, it has fetched the
\* list, and no request, response or event is on its way.
Settled ==
  /\ readyState[Browser] = OPEN
  /\ Len(inbox[Browser]) = nemit
  /\ delivered[Browser] = Len(inbox[Browser])
  /\ reqs = {}
  /\ fetch.sent > 0
  /\ fetch.inflight = {}

\* C29: when the browser client is settled its list holds exactly the tasks
\* of the collection.
C29_LocalIsCollection ==
  Settled => (Range(local) = Range(tasks) /\ Len(local) = Len(tasks))

\* The fields of a task.
Fields == DOMAIN newTask(EmptyBody, Undef, Undef)

\* The fields an Update with this payload may change, and those a Move may.
UpdateMayChange(body) == {f \in Fields : body[f].t # "undefined"} \cup {"updated_at"}
MoveMayChange == {"status", "order", "updated_at"}

\* C32: an Update or a Move that reaches its save leaves the collection as
\* long as it was and every task but the targeted one as it was, at its
\* position; in the targeted task an Update leaves every field that the
\* payload does not supply, but updated_at, as it was, and a Move leaves
\* every field but status, order and updated_at as it was, whatever else its
\* payload holds.
C32_FrameOfUpdateAndMove ==
  [][\A r \in Arrived :
       r.kind \in {"update", "move"} =>
         /\ Len(tasks') = Len(tasks)
         /\ \A i \in DOMAIN tasks :
              IF tasks[i].id = r.id
              THEN /\ tasks'[i].id = r.id
                   /\ \A f \in Fields :
                        f \notin (IF r.kind = "update" THEN UpdateMayChange(r.body)
                                  ELSE MoveMayChange)
                          => tasks'[i][f] = tasks[i][f]
              ELSE tasks'[i] = tasks[i]]_vars

\* A Move of the second of two tasks whose payload also names a priority and
\* a title waits for its save: the task has the new status and order, and
\* the priority and the title it had.
C32_Witness ==
  \E r \in reqs :
    /\ r.kind = "move"
    /\ r.id = Uuid(2)
    /\ r.body.priority = Str(<<"high">>)
    /\ Len(tasks) = 2
    /\ tasks[2].id = Uuid(2)
    /\ tasks[2].status = Str(<<"review">>)
    /\ tasks[2].order = Num(1)
    /\ tasks[2].priority = Str(<<"medium">>)
    /\ tasks[2].title = Str(<<"B">>)
    /\ tasks[1].id = Uuid(1)

\* C33: a Get, a List or a Stats leaves the collection, with its order and
\* every field of every task, the file, every subscriber's stream and the
\* requests waiting for their save as they were, and issues no id.
C33_ReadsChangeNothing ==
  [][resp'.kind \in {"get", "list", "stats"} =>
       /\ tasks' = tasks
       /\ disk' = disk
       /\ inbox' = inbox
       /\ reqs' = reqs
       /\ nextId' = nextId]_vars

\* A List has returned the two tasks in another order than the collection
\* holds them, with the file written and an event in a subscriber's stream.
C33_Witness ==
  /\ resp.kind = "list"
  /\ resp.status = 200
  /\ Len(resp.ret) = 2
  /\ resp.ret # tasks
  /\ tasks[1].order = Num(2)
  /\ disk.data = tasks
  /\ inbox[1] # <<>>

\* C34: the title of every task of the collection is text, is not empty and
\* neither begins nor ends with whitespace.
C34_TitlesTrimmed ==
  \A i \in DOMAIN tasks :
    /\ tasks[i].title.t = "str"
    /\ tasks[i].title.s # <<>>
    /\ tasks[i].title.s[1] # " "
    /\ tasks[i].title.s[Len(tasks[i].title.s)] # " "

\* An Update whose payload gave the title " B " was saved and the task's
\* title is "B".
C34_Witness ==
  /\ resp.kind = "update"
  /\ resp.status = 200
  /\ resp.body.title = sB
  /\ \E i \in DOMAIN tasks : tasks[i].id = resp.id /\ tasks[i].title = Str(<<"B">>)

\* C35: a task that Create or BulkCreate has just made has updated_at equal
\* to created_at, and after every step every task of the collection has a
\* created_at that is not later than its updated_at.
C35_CreatedNotAfterUpdated ==
  [][/\ \A r \in Arrived :
          r.kind \in {"create", "bulk"} =>
            \A k \in DOMAIN r.ret :
              /\ r.ret[k] \in Range(tasks')
              /\ r.ret[k].created_at = r.ret[k].updated_at
              /\ r.ret[k].created_at = Iso(clock)
     /\ \A i \in DOMAIN tasks' :
          /\ tasks'[i].created_at.t = "iso"
          /\ tasks'[i].updated_at.t = "iso"
          /\ tasks'[i].created_at.n <= tasks'[i].updated_at.n]_vars

\* An Update made after the clock advanced, whose payload named a created_at
\* and an updated_at, was saved: the task has its first created_at and a
\* later updated_at.
C35_Witness ==
  /\ resp.kind = "update"
  /\ resp.status = 200
  /\ resp.body.created_at.t = "iso"
  /\ \E i \in DOMAIN tasks :
       /\ tasks[i].id = resp.id
       /\ tasks[i].created_at = Iso(0)
       /\ tasks[i].updated_at = Iso(MaxClock)

\* C36: a List whose query has a search text returns a result.
C36_SearchAnswers ==
  [][(resp'.kind = "list" /\ Supplied(resp'.query.search)) => resp'.status = 200]_vars

\* What loadTasks does with a file that is missing, and with one that cannot
\* be read or parsed: no task, and a save in the first case only.
LoadsEmpty ==
  /\ (server = "loading" /\ disk.state = "missing") =>
       (tasks' = <<>> /\ server' = "saving" /\ disk' = disk)
  /\ (server = "loading" /\ disk.state \in {"unreadable", "unparsable"}) =>
       (tasks' = <<>> /\ server' = "listening" /\ disk' = disk)
  /\ server # "listening" => reqs' = {}

Live(p) == IF p.ws \in {"connecting", "open"} THEN 1 ELSE 0

\* C38: from init() on the page has either one socket that is connecting or
\* open and no reconnect timer, or no such socket and one timer.  A timer is
\* set in a step exactly when the socket closes in it or a new socket cannot
\* be constructed in it, and then one timer is set; a socket is made only by
\* init() and by the timer that fires.
C38_OneSocketOrOneTimer ==
  [][/\ page'.loaded => Live(page') + page'.timers = 1
     /\ (page.loaded /\ page' # page) =>
          LET closes == Live(page) = 1 /\ page'.ws = "closed"
              fires == page.timers = 1 /\ Live(page) = 0
              made == Live(page') = 1 /\ Live(page) = 0
              fails == fires /\ ~made
              set == page'.timers - (IF fires THEN page.timers - 1 ELSE page.timers)
          IN /\ set = (IF closes \/ fails THEN 1 ELSE 0)
             /\ made => fires]_vars

\* The page's second socket has closed as its first had, and one timer is set.
C38_Witness ==
  /\ page.ws = "closed"
  /\ page.sub = 2
  /\ readyState[1] = CLOSED
  /\ readyState[2] = CLOSED
  /\ page.timers = 1
  /\ ~page.connected

\* The delay of the n-th reconnect attempt in a row.
Backoff(n) ==
  CASE n = 1 -> 2000 [] n = 2 -> 4000 [] n = 3 -> 8000 [] n = 4 -> 16000 [] OTHER -> 30000

\* C39: a step that sets a reconnect timer raises the attempt counter by one,
\* to n, and sets the timer to 2000, 4000, 8000, 16000 ms for n from 1 to 4
\* and to 30000 ms from n = 5 on, which is not less than the delay of the
\* attempt before it since the last open and not more than 30000 ms; the
\* step in which the socket opens sets the counter to 0.
C39_BackoffDelay ==
  [][/\ page'.timers > page.timers \/ (page.timers = 1 /\ page'.timers = 1 /\ page' # page) =>
          /\ page'.reconnectAttempts = page.reconnectAttempts + 1
          /\ page'.delay = Backoff(page'.reconnectAttempts)
          /\ page'.delay <= 30000
          /\ page.reconnectAttempts >= 1 => page'.delay >= page.delay
     /\ (page'.ws = "open" /\ page.ws # "open") => page'.reconnectAttempts = 0
     /\ page'.reconnectAttempts # page.reconnectAttempts =>
          \/ page'.reconnectAttempts = page.reconnectAttempts + 1
          \/ page'.reconnectAttempts = 0 /\ page'.ws = "open"]_vars

\* After a socket that had opened was lost, the fifth attempt in a row waits
\* for its timer of 30000 ms.
C39_Witness ==
  /\ page.reconnectAttempts = 5
  /\ page.delay = 30000
  /\ page.timers = 1
  /\ readyState[1] = CLOSED

\* The page's first socket was accepted and is closed, its second socket is
\* open at both ends, and no request, response or event is on its way.
Reconnected ==
  /\ page.ws = "open"
  /\ page.sub = 2
  /\ readyState[1] = CLOSED
  /\ readyState[2] = OPEN
  /\ reqs = {}
  /\ fetch.inflight = {}
  /\ delivered[2] = Len(inbox[2])

\* C31: once the page has reconnected and nothing is on its way, its list
\* holds exactly the tasks of the collection.
C31_ReconnectedIsCurrent ==
  Reconnected => (Range(local) = Range(tasks) /\ Len(local) = Len(tasks))

====
